---- MODULE Spec2Model ----
(***************************************************************************)
(* A model of the lightify gateway client (src/lightify/__init__.py):      *)
(* the frame codec, the sequence generator, send with its reconnect, the   *)
(* Light / Group / Scene entities and the three bulk refreshes with their  *)
(* reconciliation of the live maps.                                        *)
(*                                                                         *)
(* Every method of the client is an operator from the client's state (a    *)
(* record `c` whose fields carry the names of the attributes of Lightify)  *)
(* to a result [c, exc, val]: the state it leaves, the exception it raises *)
(* ("none" when it returns) and the value it returns.  An action of the    *)
(* specification is one public call: it applies the operator to the        *)
(* current state and stores what it left, also when the call raised.       *)
(***************************************************************************)
EXTENDS Integers, Sequences, FiniteSets, TLC

VARIABLES
    seq,              \* Lightify.__seq
    lights,           \* Lightify.__lights: the live Light objects (ids), in dict order
    lobj,             \* the Light objects created so far, by object id
    groups,           \* Lightify.__groups: the live Group objects (ids), in dict order
    gobj,             \* the Group objects created so far, by object id
    scenes,           \* Lightify.__scenes: the live Scene objects (ids), in dict order
    sobj,             \* the Scene objects created so far, by object id
    lights_updated,   \* Lightify.__lights_updated
    lights_changed,   \* Lightify.__lights_changed
    groups_updated,   \* Lightify.__groups_updated
    scenes_updated,   \* Lightify.__scenes_updated
    lights_hash,      \* Lightify.__lights_hash
    now,              \* what time.time() returns
    call,             \* the last public call: its name and its arguments
    ret,              \* how it ended: the exception raised and the value returned
    wrote,            \* the frames it handed to sendall, in order
    read,             \* the responses it read from the socket, in order
    conns,            \* the number of times it called _connect
    refreshed,        \* the bulk refreshes that ran to their end so far
    issued,           \* the sequence numbers _next_seq returned last, oldest first
    thr,              \* each thread inside send: where it is, its frame, what it got
    lock,             \* Lightify.__lock: the thread that owns it, 0 when free
    sock              \* Lightify.__sock: the connection, as the gateway sees it

vars == <<seq, lights, lobj, groups, gobj, scenes, sobj, lights_updated,
          lights_changed, groups_updated, scenes_updated, lights_hash, now,
          call, ret, wrote, read, conns, refreshed, issued, thr, lock, sock>>

----------------------------------------------------------------------------
(* Bounds of the model.                                                    *)

MaxAddr == 3          \* light addresses 1..MaxAddr
MaxRecs == 2          \* records in one all-light-status response
MaxSeq == 2           \* frames built in one behaviour
MaxTicks == 2         \* seconds the clock advances in one behaviour
MaxInterval == 2      \* the largest throttling interval a caller passes
MaxSeqLight == 3      \* frames built in one behaviour of SpecLight
MaxSeqSend == 3       \* frames built in one behaviour of SpecSend
MaxSeqSync == 2       \* frames built in one behaviour of SpecSync
MaxSeqLazy == 3       \* frames built in one behaviour of SpecLazy
MaxSeqThreads == 3    \* frames built in one behaviour of SpecThreads
MaxThreads == 2       \* threads that call send
MaxPayload == 2       \* bytes of payload handed to a command builder in SpecFrames
MaxBody == 3          \* bytes that follow the length prefix of a response in SpecRecv
MaxSeqLock == 1       \* the counter's value past which no call starts in SpecLock
MaxSeqGroup == 3      \* frames built in one behaviour of SpecGroup
MaxSeqHint == 4       \* frames built in one behaviour of SpecHint
MaxSeqRetype == 3     \* frames built in one behaviour of SpecRetype

----------------------------------------------------------------------------
(* Constants of the source.                                                *)

COMMAND_ALL_LIGHT_STATUS == 19
COMMAND_GROUP_LIST == 30
COMMAND_SCENE_LIST == 31
COMMAND_LUMINANCE == 49
COMMAND_ONOFF == 50
COMMAND_TEMP == 51
COMMAND_COLOUR == 54
COMMAND_ACTIVATE_SCENE == 82
DEFAULT_ALPHA == 255
FLAG_LIGHT == 0
FLAG_GLOBAL == 2
NO_RGB_VALUES == <<1, 0, 0>>
TYPE_LIGHT_TUNABLE_WHITE == 2
TYPE_LIGHT_RGB == 10
DEFAULT_LUMINANCE == 1
DEFAULT_TEMPERATURE == 2700
MIN_TEMPERATURE_TUNABLE_WHITE == 2700
MAX_TEMPERATURE_TUNABLE_WHITE == 6500
MIN_TEMPERATURE_RGB == 1900
MAX_TEMPERATURE_RGB == 6500
MAX_LUMINANCE == 100
MAX_COLOUR == 255
OUTDATED_TIMESTAMP == 1
PROTOCOL_VERSION == 7

Min(a, b) == IF a < b THEN a ELSE b
Max(a, b) == IF a > b THEN a ELSE b

(* A result of a method: the client state it leaves, the exception it     *)
(* raises ("none": it returns) and the value it returns (a sequence).      *)
Ret(c, v) == [c |-> c, exc |-> "none", val |-> v]
(* A call's result r handed to what follows it, evaluated once: Then       *)
(* whatever the result, Try unless the call raised.                        *)
Then(r, F(_)) == CHOOSE x \in {F(u) : u \in {r}} : TRUE
Try(r, F(_)) == CHOOSE x \in {IF u.exc # "none" THEN u ELSE F(u) : u \in {r}} : TRUE
Raise(c, e) == [c |-> c, exc |-> e, val |-> <<>>]

----------------------------------------------------------------------------
(* The capability table.                                                   *)

DEVICE_TYPES ==
    [t \in {1, 2, 4, 10, 16, 31, 32, 64, 65, 66, 67, 68} |->
        CASE t = 1 -> [type |-> "LIGHT", subtype |-> "LIGHT_FIXED_WHITE",
                       name |-> "light non softswitch"]
          [] t = 2 -> [type |-> "LIGHT", subtype |-> "LIGHT_TUNABLE_WHITE",
                       name |-> "light tunable white"]
          [] t = 4 -> [type |-> "LIGHT", subtype |-> "LIGHT_FIXED_WHITE",
                       name |-> "light fixed white"]
          [] t = 10 -> [type |-> "LIGHT", subtype |-> "LIGHT_RGB",
                        name |-> "light rgb"]
          [] t = 16 -> [type |-> "PLUG", subtype |-> "PLUG", name |-> "plug"]
          [] t = 31 -> [type |-> "SENSOR", subtype |-> "CONTACT_SENSOR",
                        name |-> "contact sensor"]
          [] t = 32 -> [type |-> "SENSOR", subtype |-> "MOTION_SENSOR",
                        name |-> "motion sensor"]
          [] t = 64 -> [type |-> "SWITCH", subtype |-> "SWITCH",
                        name |-> "2 button switch"]
          [] t = 65 -> [type |-> "SWITCH", subtype |-> "SWITCH",
                        name |-> "4 button switch"]
          [] t = 66 -> [type |-> "SWITCH", subtype |-> "SWITCH",
                        name |-> "3 button switch"]
          [] OTHER -> [type |-> "SWITCH", subtype |-> "SWITCH",
                       name |-> "unknown switch"]]

(* The new_device_types the client is constructed with: the docstring's    *)
(* example entry, with a temperature range of its own.                     *)
new_device_types ==
    [t \in {128} |-> [type |-> "LIGHT", subtype |-> "LIGHT_TUNABLE_WHITE",
                      name |-> "tradfri tunable white",
                      min_temp |-> 2200, max_temp |-> 4000]]

(* Lightify.device_types(): DEVICE_TYPES.copy() updated with the entries   *)
(* given at construction.                                                  *)
device_types ==
    [t \in DOMAIN DEVICE_TYPES \cup DOMAIN new_device_types |->
        IF t \in DOMAIN new_device_types THEN new_device_types[t]
        ELSE DEVICE_TYPES[t]]

(* dict.get(key, default)                                                  *)
DictGet(d, key, default) == IF key \in DOMAIN d THEN d[key] ELSE default

UNKNOWN_DEVICENAME == "unknown device"

----------------------------------------------------------------------------
(* class Light                                                             *)

(* Light.__init__                                                          *)
Light(addr, type_id, type_id_assumed) ==
    LET device_info == device_types[type_id_assumed]
        sub == device_info.subtype
        sensor == sub \in {"CONTACT_SENSOR", "MOTION_SENSOR", "SWITCH"}
        temp == IF sensor THEN 0 ELSE DEFAULT_TEMPERATURE
    IN  [kind |-> "light",
         addr |-> addr,
         name |-> "",
         reachable |-> TRUE,
         onoff |-> FALSE,
         groups |-> <<>>,
         deleted |-> FALSE,
         type_id |-> type_id,
         idx |-> 0,
         devicesubtype |-> sub,
         devicetype |-> device_info.type,
         devicename |-> IF type_id = type_id_assumed THEN device_info.name
                        ELSE UNKNOWN_DEVICENAME,
         lum |-> IF sensor THEN 0 ELSE MAX_LUMINANCE,
         temp |-> temp,
         red |-> IF sensor THEN 0 ELSE MAX_COLOUR,
         green |-> IF sensor THEN 0 ELSE MAX_COLOUR,
         blue |-> IF sensor THEN 0 ELSE MAX_COLOUR,
         supported_features |->
             CASE sensor -> {}
               [] sub = "PLUG" -> {"on"}
               [] sub = "LIGHT_FIXED_WHITE" -> {"on", "lum"}
               [] sub = "LIGHT_TUNABLE_WHITE" -> {"on", "lum", "temp"}
               [] OTHER -> {"on", "lum", "temp", "rgb"},
         min_temp |->
             CASE sub = "LIGHT_TUNABLE_WHITE" ->
                      DictGet(device_info, "min_temp", MIN_TEMPERATURE_TUNABLE_WHITE)
               [] sub \in {"PLUG", "LIGHT_FIXED_WHITE"} \/ sensor -> temp
               [] OTHER -> DictGet(device_info, "min_temp", MIN_TEMPERATURE_RGB),
         max_temp |->
             CASE sub = "LIGHT_TUNABLE_WHITE" ->
                      DictGet(device_info, "max_temp", MAX_TEMPERATURE_TUNABLE_WHITE)
               [] sub \in {"PLUG", "LIGHT_FIXED_WHITE"} \/ sensor -> temp
               [] OTHER -> DictGet(device_info, "max_temp", MAX_TEMPERATURE_RGB)]

(* Light.min_temp(), Light.max_temp()                                      *)
Light_min_temp(l) == IF "temp" \in l.supported_features THEN l.min_temp ELSE l.temp
Light_max_temp(l) == IF "temp" \in l.supported_features THEN l.max_temp ELSE l.temp

(* Light.mark_deleted                                                      *)
Light_mark_deleted(l) == [l EXCEPT !.deleted = TRUE]

(* The group list of a 16-bit membership mask:                             *)
(* [16 - j for j, val in enumerate(format(groups, '016b')) if val == '1']  *)
(* Character j of the 16-digit binary string is bit 15 - j of the mask.    *)
RECURSIVE GroupsFrom(_, _)
GroupsFrom(mask, j) ==
    IF j > 15 THEN <<>>
    ELSE (IF (mask \div (2 ^ (15 - j))) % 2 = 1 THEN <<16 - j>> ELSE <<>>)
         \o GroupsFrom(mask, j + 1)
GroupList(mask) == GroupsFrom(mask, 0)

(* Light.update_status, called with the fields of one status record and    *)
(* the record's position in the response.                                  *)
(* Its mutant: the luminance of the record is stored whatever the light    *)
(* supports.                                                               *)
Light_update_status_ungated(l, r, grps, idx) ==
    LET f == l.supported_features
    IN  [l EXCEPT !.reachable = (r.reachable # 0),
                  !.name = r.name,
                  !.groups = grps,
                  !.idx = idx,
                  !.onoff = IF "on" \in f THEN (r.onoff # 0) ELSE @,
                  !.lum = r.lum,
                  !.temp = IF "temp" \in f THEN r.temp ELSE @,
                  !.red = IF "rgb" \in f THEN r.red ELSE @,
                  !.green = IF "rgb" \in f THEN r.green ELSE @,
                  !.blue = IF "rgb" \in f THEN r.blue ELSE @]

(* Its mutant: the object takes the type id the record reports.            *)
Light_update_status_retyped(l, r, grps, idx) ==
    LET f == l.supported_features
    IN  [l EXCEPT !.reachable = (r.reachable # 0),
                  !.name = r.name,
                  !.groups = grps,
                  !.idx = idx,
                  !.type_id = r.type_id,
                  !.onoff = IF "on" \in f THEN (r.onoff # 0) ELSE @,
                  !.lum = IF "lum" \in f THEN r.lum ELSE @,
                  !.temp = IF "temp" \in f THEN r.temp ELSE @,
                  !.red = IF "rgb" \in f THEN r.red ELSE @,
                  !.green = IF "rgb" \in f THEN r.green ELSE @,
                  !.blue = IF "rgb" \in f THEN r.blue ELSE @]

Light_update_status(l, r, grps, idx) ==
    LET f == l.supported_features
    IN  [l EXCEPT !.reachable = (r.reachable # 0),
                  !.name = r.name,
                  !.groups = grps,
                  !.idx = idx,
                  !.onoff = IF "on" \in f THEN (r.onoff # 0) ELSE @,
                  !.lum = IF "lum" \in f THEN r.lum ELSE @,
                  !.temp = IF "temp" \in f THEN r.temp ELSE @,
                  !.red = IF "rgb" \in f THEN r.red ELSE @,
                  !.green = IF "rgb" \in f THEN r.green ELSE @,
                  !.blue = IF "rgb" \in f THEN r.blue ELSE @]

----------------------------------------------------------------------------
(* Dicts keep their insertion order: a dict is a sequence of entries with  *)
(* distinct keys (the address for lights, the name for groups and scenes). *)

SeqRemove(q, k) == [i \in 1..(Len(q) - 1) |-> IF i < k THEN q[i] ELSE q[i + 1]]

Keys(d) == {d[i].key : i \in DOMAIN d}
KeyPos(d, a) == CHOOSE i \in DOMAIN d : d[i].key = a
(* d[e.key] = e: a present key keeps its place                             *)
KeySet(d, e) ==
    IF e.key \in Keys(d) THEN [d EXCEPT ![KeyPos(d, e.key)] = e]
    ELSE Append(d, e)
(* del d[a]                                                                *)
KeyDel(d, a) == SeqRemove(d, KeyPos(d, a))

(* The live Light object of an address: its id, 0 when there is none.      *)
LiveLight(c, a) ==
    IF \E k \in DOMAIN c.lights : c.lobj[c.lights[k]].addr = a
    THEN c.lights[CHOOSE k \in DOMAIN c.lights : c.lobj[c.lights[k]].addr = a]
    ELSE 0

----------------------------------------------------------------------------
(* The frame codec.                                                        *)

(* struct.pack of one little-endian unsigned integer of k bytes            *)
RECURSIVE LE(_, _)
LE(n, k) == IF k = 0 THEN <<>> ELSE <<n % 256>> \o LE(n \div 256, k - 1)
(* struct.unpack of one little-endian unsigned integer                     *)
RECURSIVE LEValue(_)
LEValue(bytes) == IF bytes = <<>> THEN 0 ELSE Head(bytes) + 256 * LEValue(Tail(bytes))
(* struct.pack raises struct.error for a value outside the field's range   *)
RECURSIVE Fits(_, _)
Fits(n, k) == IF k = 0 THEN n = 0 ELSE n >= 0 /\ Fits(n \div 256, k - 1)

(* Lightify._next_seq                                                      *)
next_seq(c) ==
    LET n == (c.seq + 1) % 256
    IN  Ret([c EXCEPT !.seq = n], n)

(* A mutant of build_basic_command: the length leaves the address out.     *)
build_basic_command_short(c, flag, command, addr, data) ==
    LET length == 6 + Len(data)
        s == next_seq(c)
    IN  Ret(s.c, LE(length, 2) \o <<flag, command, 0, 0, PROTOCOL_VERSION, s.val>>
                 \o addr \o data)

(* Lightify.build_basic_command                                            *)
build_basic_command(c, flag, command, addr, data) ==
    LET length == 6 + Len(addr) + Len(data)
        s == next_seq(c)
    IN  Ret(s.c, LE(length, 2) \o <<flag, command, 0, 0, PROTOCOL_VERSION, s.val>>
                 \o addr \o data)

(* Lightify.build_global_command                                           *)
build_global_command(c, command, data) ==
    build_basic_command(c, FLAG_GLOBAL, command, <<>>, data)

(* Lightify.build_command: a group or scene command                        *)
build_command(c, command, idx, data) ==
    IF ~Fits(idx, 1) THEN Raise(c, "struct.error")
    ELSE build_basic_command(c, FLAG_GLOBAL, command,
                             <<idx, 0, 0, 0, 0, 0, 0, 0>>, data)

(* Lightify.build_light_command                                            *)
build_light_command(c, command, addr, data) ==
    IF ~Fits(addr, 8) THEN Raise(c, "struct.error")
    ELSE build_basic_command(c, FLAG_LIGHT, command, LE(addr, 8), data)

(* item.build_command: Light.build_command or Group.build_command          *)
item_build_command(c, item, command, data) ==
    IF item.kind = "light" THEN build_light_command(c, command, item.addr, data)
    ELSE build_command(c, command, item.idx, data)

(* Lightify.build_onoff                                                    *)
build_onoff(c, item, onoff) ==
    item_build_command(c, item, COMMAND_ONOFF, <<IF onoff THEN 1 ELSE 0>>)

(* Lightify.build_temp                                                     *)
build_temp(c, item, temp, transition) ==
    IF ~(Fits(temp, 2) /\ Fits(transition, 2)) THEN Raise(c, "struct.error")
    ELSE item_build_command(c, item, COMMAND_TEMP, LE(temp, 2) \o LE(transition, 2))

(* Lightify.build_luminance                                                *)
build_luminance(c, item, lum, transition) ==
    IF ~(Fits(lum, 1) /\ Fits(transition, 2)) THEN Raise(c, "struct.error")
    ELSE item_build_command(c, item, COMMAND_LUMINANCE, <<lum>> \o LE(transition, 2))

(* Lightify.build_colour                                                   *)
build_colour(c, item, red, green, blue, transition) ==
    IF ~(Fits(red, 1) /\ Fits(green, 1) /\ Fits(blue, 1) /\ Fits(transition, 2))
    THEN Raise(c, "struct.error")
    ELSE item_build_command(c, item, COMMAND_COLOUR,
                            <<red, green, blue, DEFAULT_ALPHA>> \o LE(transition, 2))

(* Lightify.build_all_light_status                                         *)
build_all_light_status(c, flag) ==
    build_global_command(c, COMMAND_ALL_LIGHT_STATUS, <<flag>>)

(* Lightify.build_group_list, Lightify.build_scene_list                    *)
build_group_list(c) == build_global_command(c, COMMAND_GROUP_LIST, <<>>)
build_scene_list(c) == build_global_command(c, COMMAND_SCENE_LIST, <<>>)

----------------------------------------------------------------------------
(* The connection.  What the socket does in one send is the environment's  *)
(* choice `io`: io.try lists how the write-and-read attempts end ("ok": the*)
(* whole response was read, "err": socket.error), io.conn how the          *)
(* reconnect's socket.connect ends, io.resp the response the gateway gives.*)

(* Lightify._connect                                                       *)
connect(c, io) ==
    LET c1 == [c EXCEPT !.conns = @ + 1]
    IN  IF io.conn = "ok" THEN Ret(c1, <<>>) ELSE Raise(c1, "socket.error")

(* A mutant of Lightify.send: the frame is sent again on the socket that   *)
(* failed, without a reconnect.                                            *)
send_without_reconnect(c, data, reconnect, io) ==
    LET c1 == [c EXCEPT !.wrote = Append(@, data)]
        c2 == [c1 EXCEPT !.wrote = Append(@, data)]
    IN  IF Head(io.try) = "ok" THEN Ret([c1 EXCEPT !.read = Append(@, io.resp)], io.resp)
        ELSE IF reconnect
             THEN IF io.try[2] = "ok"
                  THEN Ret([c2 EXCEPT !.read = Append(@, io.resp)], io.resp)
                  ELSE Raise(c2, "socket.error")
             ELSE Raise(c1, "socket.error")

(* Lightify.send                                                           *)
RECURSIVE send(_, _, _, _)
send(c, data, reconnect, io) ==
    LET c1 == [c EXCEPT !.wrote = Append(@, data)]
    IN  IF Head(io.try) = "ok" THEN Ret([c1 EXCEPT !.read = Append(@, io.resp)], io.resp)
        ELSE IF reconnect
             THEN LET k == connect(c1, io)
                  IN  IF k.exc # "none" THEN k
                      ELSE send(k.c, data, FALSE, [io EXCEPT !.try = Tail(@)])
             ELSE Raise(c1, "socket.error")

(* Lightify.set_lights_updated, Lightify.set_lights_changed                *)
(* The mutant of the first: the timestamp is left as it is.                *)
set_lights_updated_kept(c) == c
set_lights_updated(c) == [c EXCEPT !.lights_updated = OUTDATED_TIMESTAMP]
set_lights_changed(c) == [c EXCEPT !.lights_hash = <<>>, !.lights_changed = c.now]

(* hashlib.md5(data[7:]).hexdigest(): the digest of the response's payload *)
(* (its count and records), taken to be free of collisions.  The empty     *)
(* string the hash starts as is <<>>.                                      *)
md5(data) == <<data>>

----------------------------------------------------------------------------
(* Lightify.update_all_light_status                                        *)

(* The type a new light is constructed with (lines 1543-1553).             *)
(* Its mutant: every unknown type is assumed to be a full RGB light.       *)
type_id_assumed_rgb(r) ==
    IF r.type_id \notin DOMAIN device_types THEN TYPE_LIGHT_RGB ELSE r.type_id

type_id_assumed(r) ==
    IF r.type_id \notin DOMAIN device_types
    THEN IF <<r.red, r.green, r.blue>> = NO_RGB_VALUES
         THEN TYPE_LIGHT_TUNABLE_WHITE ELSE TYPE_LIGHT_RGB
    ELSE r.type_id

(* The loop over the num records of the response: record i unpacks when    *)
(* its 50 bytes are there; an old light's object is updated in place, a    *)
(* new light's object is constructed; new_lights[addr] = light.            *)
RECURSIVE light_records(_, _, _, _)
light_records(c, data, i, new_lights) ==
    IF i >= data.num THEN Ret(c, new_lights)
    ELSE IF i >= Len(data.recs) THEN Raise(c, "struct.error")
    ELSE
        LET r == data.recs[i + 1]
            grps == GroupList(r.groups)
            o == LiveLight(c, r.addr)
        IN  IF o # 0
            THEN LET c1 == [c EXCEPT !.lobj[o] = Light_update_status(@, r, grps, i)]
                 IN  light_records(c1, data, i + 1,
                                   KeySet(new_lights, [key |-> r.addr, id |-> o,
                                                        obj |-> c1.lobj[o]]))
            ELSE LET l == Light_update_status(
                              Light(r.addr, r.type_id, type_id_assumed(r)), r, grps, i)
                 IN  light_records(c, data, i + 1,
                                   KeySet(new_lights, [key |-> r.addr, id |-> 0,
                                                        obj |-> l]))

(* for addr in self.__lights: the k-th key of the dict is visited.  A key  *)
(* absent from new_lights is marked deleted and deleted from the dict that *)
(* is being iterated, so the iterator's next step raises RuntimeError      *)
(* (dictionary changed size during iteration).                             *)
(* Its mutant: the light is marked deleted and left in the dict.           *)
RECURSIVE light_reconcile_keeps(_, _, _)
light_reconcile_keeps(c, k, new_lights) ==
    IF k > Len(c.lights) THEN Ret(c, new_lights)
    ELSE LET o == c.lights[k]
             a == c.lobj[o].addr
         IN  IF a \notin Keys(new_lights)
             THEN light_reconcile_keeps([c EXCEPT !.lobj[o] = Light_mark_deleted(@)],
                                        k + 1, new_lights)
             ELSE light_reconcile_keeps(c, k + 1, KeyDel(new_lights, a))

RECURSIVE light_reconcile(_, _, _)
light_reconcile(c, k, new_lights) ==
    IF k > Len(c.lights) THEN Ret(c, new_lights)
    ELSE LET o == c.lights[k]
             a == c.lobj[o].addr
         IN  IF a \notin Keys(new_lights)
             THEN Raise([c EXCEPT !.lobj[o] = Light_mark_deleted(@),
                                  !.lights = SeqRemove(@, k)], "RuntimeError")
             ELSE light_reconcile(c, k + 1, KeyDel(new_lights, a))

(* for addr in new_lights: self.__lights[addr] = new_lights[addr]          *)
RECURSIVE light_insert(_, _, _)
light_insert(c, new_lights, ids) ==
    IF new_lights = <<>> THEN Ret(c, ids)
    ELSE LET e == Head(new_lights)
             o == Len(c.lobj) + 1
         IN  light_insert([c EXCEPT !.lobj = Append(@, e.obj),
                                    !.lights = Append(@, o)],
                          Tail(new_lights), Append(ids, o))

(* if old_hash == self.__lights_hash (line 1505), with its mutant: a      *)
(* comparison that never finds the hash unchanged.                         *)
hash_never_unchanged(old_hash, new_hash) == FALSE
hash_unchanged(old_hash, new_hash) == old_hash = new_hash

(* if throttling_interval and time.time() < updated + throttling_interval, *)
(* with its mutant: a check that never throttles.  None is 0.              *)
throttled_never(c, updated, throttling_interval) == FALSE
throttled(c, updated, throttling_interval) ==
    throttling_interval # 0 /\ c.now < updated + throttling_interval

update_all_light_status(c, throttling_interval, io) ==
    IF throttled(c, c.lights_updated, throttling_interval)
    THEN Ret(c, <<>>)
    ELSE
        Try(build_all_light_status(c, 1), LAMBDA b :
        Try(send(b.c, b.val, TRUE, io), LAMBDA s :
            LET data == s.val
                old_hash == s.c.lights_hash
                c1 == [s.c EXCEPT !.lights_hash = md5(data)]
            IN  IF hash_unchanged(old_hash, c1.lights_hash)
                THEN Ret([c1 EXCEPT !.lights_updated = c1.now,
                                    !.refreshed = @ \cup {"lights"}], <<>>)
                ELSE
                    Then(light_records(c1, data, 0, <<>>), LAMBDA p :
                        IF p.exc = "struct.error" THEN Ret(p.c, <<>>)
                        ELSE
                            Try(light_reconcile(p.c, 1, p.val), LAMBDA d :
                            Try(light_insert(d.c, d.val, <<>>), LAMBDA n :
                                Ret([n.c EXCEPT !.lights_updated = n.c.now,
                                                !.lights_changed = n.c.now,
                                                !.refreshed = @ \cup {"lights"}],
                                    n.val))))))

----------------------------------------------------------------------------
(* The setters of Light.  `snd` is the parameter send.                     *)

(* if send: command = build...; self.__conn.send(command);                 *)
(*          self.__conn.set_lights_changed()                               *)
(* Its mutant: set_lights_changed is called whether or not send raised.    *)
send_command_changed_anyway(built, io) ==
    Try(built, LAMBDA b :
    Then(send(b.c, b.val, TRUE, io), LAMBDA s :
        [c |-> set_lights_changed(s.c), exc |-> s.exc, val |-> <<>>]))

send_command(built, io) ==
    Try(built, LAMBDA b :
    Try(send(b.c, b.val, TRUE, io), LAMBDA s :
        Ret(set_lights_changed(s.c), <<>>)))

(* A mutant of Light.set_onoff: the deleted flag is not looked at.         *)
Light_set_onoff_undeleted(c, o, onoff, snd, io) ==
    LET l == c.lobj[o]
    IN  IF "on" \notin l.supported_features THEN Ret(c, <<>>)
        ELSE
            LET l1 == [l EXCEPT !.onoff = onoff,
                                !.lum = IF onoff /\ @ = 0 THEN DEFAULT_LUMINANCE ELSE @]
                c1 == [c EXCEPT !.lobj[o] = l1]
            IN  IF snd THEN send_command(build_onoff(c1, l1, onoff), io)
                ELSE Ret(c1, <<>>)

(* Light.set_onoff                                                         *)
Light_set_onoff(c, o, onoff, snd, io) ==
    LET l == c.lobj[o]
    IN  IF l.deleted THEN Ret(c, <<>>)
        ELSE IF "on" \notin l.supported_features THEN Ret(c, <<>>)
        ELSE
            LET l1 == [l EXCEPT !.onoff = onoff,
                                !.lum = IF onoff /\ @ = 0 THEN DEFAULT_LUMINANCE ELSE @]
                c1 == [c EXCEPT !.lobj[o] = l1]
            IN  IF snd THEN send_command(build_onoff(c1, l1, onoff), io)
                ELSE Ret(c1, <<>>)

(* A mutant of Light.set_luminance: the luminance is stored as it comes    *)
(* and the light is left on or off as it was.                              *)
Light_set_luminance_uncoupled(c, o, lum_in, transition, snd, io) ==
    LET l == c.lobj[o]
    IN  IF l.deleted THEN Ret(c, <<>>)
        ELSE IF "lum" \notin l.supported_features THEN Ret(c, <<>>)
        ELSE
            LET l1 == [l EXCEPT !.lum = lum_in]
                c1 == [c EXCEPT !.lobj[o] = l1]
            IN  IF snd THEN send_command(build_luminance(c1, l1, lum_in, transition), io)
                ELSE Ret(c1, <<>>)

(* Light.set_luminance                                                     *)
Light_set_luminance(c, o, lum_in, transition, snd, io) ==
    LET l == c.lobj[o]
    IN  IF l.deleted THEN Ret(c, <<>>)
        ELSE IF "lum" \notin l.supported_features THEN Ret(c, <<>>)
        ELSE
            LET lum == Min(lum_in, MAX_LUMINANCE)
                l1 == [l EXCEPT !.lum = IF lum = 0 THEN DEFAULT_LUMINANCE ELSE lum,
                                !.onoff = IF lum > 0 THEN TRUE
                                          ELSE IF lum = 0 THEN FALSE ELSE @]
                c1 == [c EXCEPT !.lobj[o] = l1]
            IN  IF snd THEN send_command(build_luminance(c1, l1, lum, transition), io)
                ELSE Ret(c1, <<>>)

(* A mutant of Light.set_temperature: the range is that of the constants,  *)
(* whatever the light's own.                                               *)
Light_set_temperature_global(c, o, temp_in, transition, snd, io) ==
    LET l == c.lobj[o]
    IN  IF l.deleted THEN Ret(c, <<>>)
        ELSE IF "temp" \notin l.supported_features THEN Ret(c, <<>>)
        ELSE
            LET temp == Min(Max(MIN_TEMPERATURE_RGB, temp_in), MAX_TEMPERATURE_RGB)
                l1 == [l EXCEPT !.temp = temp]
                c1 == [c EXCEPT !.lobj[o] = l1]
            IN  IF snd THEN send_command(build_temp(c1, l1, temp, transition), io)
                ELSE Ret(c1, <<>>)

(* Light.set_temperature                                                   *)
Light_set_temperature(c, o, temp_in, transition, snd, io) ==
    LET l == c.lobj[o]
    IN  IF l.deleted THEN Ret(c, <<>>)
        ELSE IF "temp" \notin l.supported_features THEN Ret(c, <<>>)
        ELSE
            LET temp == Min(Max(Light_min_temp(l), temp_in), Light_max_temp(l))
                l1 == [l EXCEPT !.temp = temp]
                c1 == [c EXCEPT !.lobj[o] = l1]
            IN  IF snd THEN send_command(build_temp(c1, l1, temp, transition), io)
                ELSE Ret(c1, <<>>)

(* Light.set_rgb                                                           *)
Light_set_rgb(c, o, red_in, green_in, blue_in, transition, snd, io) ==
    LET l == c.lobj[o]
    IN  IF l.deleted THEN Ret(c, <<>>)
        ELSE IF "rgb" \notin l.supported_features THEN Ret(c, <<>>)
        ELSE
            LET red == Min(red_in, MAX_COLOUR)
                green == Min(green_in, MAX_COLOUR)
                blue == Min(blue_in, MAX_COLOUR)
                l1 == [l EXCEPT !.red = red, !.green = green, !.blue = blue]
                c1 == [c EXCEPT !.lobj[o] = l1]
            IN  IF snd
                THEN send_command(build_colour(c1, l1, red, green, blue, transition), io)
                ELSE Ret(c1, <<>>)

----------------------------------------------------------------------------
(* Groups and scenes.                                                      *)

(* Group.__init__, Group.mark_deleted                                      *)
Group(idx, name) ==
    [kind |-> "group", idx |-> idx, name |-> name, lights |-> <<>>,
     scenes |-> <<>>, supported_features |-> {}, min_temp |-> 0, max_temp |-> 0,
     deleted |-> FALSE]
Group_mark_deleted(g) == [g EXCEPT !.deleted = TRUE]

(* Scene.__init__, Scene.mark_deleted                                      *)
Scene(idx, name, group) ==
    [kind |-> "scene", idx |-> idx, name |-> name, group |-> group,
     deleted |-> FALSE]
Scene_mark_deleted(sc) == [sc EXCEPT !.deleted = TRUE]

(* The live Group or Scene object of a name: its id, 0 when there is none. *)
LiveNamed(ids, objs, name) ==
    IF \E k \in DOMAIN ids : objs[ids[k]].name = name
    THEN ids[CHOOSE k \in DOMAIN ids : objs[ids[k]].name = name]
    ELSE 0

SetMin(S) == CHOOSE x \in S : \A y \in S : x <= y
SetMax(S) == CHOOSE x \in S : \A y \in S : x >= y

(* Group.update_status.  The group's addresses that are in the live light  *)
(* map give the features; with none of them set.union of no sets raises   *)
(* TypeError.  (self.__conn.lights() is reached only for a group that has  *)
(* addresses, and then a light refresh has run: it refreshes nothing.)     *)
Group_update_status(c, g) ==
    LET members == {LiveLight(c, g.lights[i]) : i \in DOMAIN g.lights} \ {0}
    IN  IF members = {} THEN Raise(c, "TypeError")
        ELSE Ret(c, [g EXCEPT
                 !.supported_features =
                     UNION {c.lobj[o].supported_features : o \in members},
                 !.min_temp = SetMin({Light_min_temp(c.lobj[o]) : o \in members}),
                 !.max_temp = SetMax({Light_max_temp(c.lobj[o]) : o \in members})])

(* Lightify._lights_sorted_byidx: sorted() is stable, lights of equal idx  *)
(* keep the order of the dict.                                             *)
RECURSIVE InsertByIdx(_, _, _)
InsertByIdx(c, q, o) ==
    IF q = <<>> THEN <<o>>
    ELSE IF c.lobj[Head(q)].idx <= c.lobj[o].idx
         THEN <<Head(q)>> \o InsertByIdx(c, Tail(q), o)
         ELSE <<o>> \o q
RECURSIVE SortByIdx(_, _)
SortByIdx(c, q) ==
    IF q = <<>> THEN <<>>
    ELSE InsertByIdx(c, SortByIdx(c, SeqRemove(q, Len(q))), q[Len(q)])
lights_sorted_byidx(c) ==
    LET q == SortByIdx(c, c.lights) IN [i \in DOMAIN q |-> c.lobj[q[i]].addr]

InSeq(x, q) == \E i \in DOMAIN q : q[i] = x

(* Lightify.update_group_lights, from the k-th group of the dict on        *)
RECURSIVE update_group_lights(_, _)
update_group_lights(c, k) ==
    IF k > Len(c.groups) THEN Ret(c, <<>>)
    ELSE LET o == c.groups[k]
             g == c.gobj[o]
             ls == SelectSeq(lights_sorted_byidx(c),
                             LAMBDA a : InSeq(g.idx, c.lobj[LiveLight(c, a)].groups))
             c1 == [c EXCEPT !.gobj[o].lights = ls]
             u == Group_update_status(c1, c1.gobj[o])
         IN  IF u.exc # "none" THEN Raise(c1, u.exc)
             ELSE update_group_lights([c1 EXCEPT !.gobj[o] = u.val], k + 1)

(* Lightify.update_group_scenes                                            *)
update_group_scenes(c) ==
    [c EXCEPT !.gobj = [o \in DOMAIN @ |->
        IF InSeq(o, c.groups)
        THEN [@[o] EXCEPT !.scenes =
                 LET q == SelectSeq(c.scenes,
                                    LAMBDA sc : c.sobj[sc].group = c.gobj[o].idx)
                 IN  [i \in DOMAIN q |-> c.sobj[q[i]].name]]
        ELSE @[o]]]

(* Lightify.update_group_list.  The response is a count and the 18-byte    *)
(* records (idx, name) that follow it.                                     *)
RECURSIVE group_records(_, _, _, _)
group_records(c, data, i, new_groups) ==
    IF i >= data.num THEN Ret(c, new_groups)
    ELSE IF i >= Len(data.recs) THEN Raise(c, "struct.error")
    ELSE
        LET r == data.recs[i + 1]
            o == LiveNamed(c.groups, c.gobj, r.name)
        IN  IF o # 0 /\ c.gobj[o].idx = r.idx
            THEN group_records(c, data, i + 1,
                     KeySet(new_groups, [key |-> r.name, id |-> o, obj |-> c.gobj[o]]))
            ELSE group_records(c, data, i + 1,
                     KeySet(new_groups, [key |-> r.name, id |-> 0,
                                         obj |-> Group(r.idx, r.name)]))

(* for name in self.__groups: a group that is absent or has another idx is *)
(* marked deleted and deleted from the dict that is being iterated, so the *)
(* iterator's next step raises RuntimeError.                               *)
RECURSIVE group_reconcile(_, _, _)
group_reconcile(c, k, new_groups) ==
    IF k > Len(c.groups) THEN Ret(c, new_groups)
    ELSE LET o == c.groups[k]
             name == c.gobj[o].name
         IN  IF \/ name \notin Keys(new_groups)
                \/ c.gobj[o].idx # new_groups[KeyPos(new_groups, name)].obj.idx
             THEN Raise([c EXCEPT !.gobj[o] = Group_mark_deleted(@),
                                  !.groups = SeqRemove(@, k)], "RuntimeError")
             ELSE group_reconcile(c, k + 1, KeyDel(new_groups, name))

RECURSIVE group_insert(_, _, _)
group_insert(c, new_groups, ids) ==
    IF new_groups = <<>> THEN Ret(c, ids)
    ELSE LET o == Len(c.gobj) + 1
         IN  group_insert([c EXCEPT !.gobj = Append(@, Head(new_groups).obj),
                                    !.groups = Append(@, o)],
                          Tail(new_groups), Append(ids, o))

update_group_list(c, throttling_interval, io) ==
    IF throttled(c, c.groups_updated, throttling_interval)
    THEN Ret(c, <<>>)
    ELSE
        Try(build_group_list(c), LAMBDA b :
        Try(send(b.c, b.val, TRUE, io), LAMBDA s :
        Try(group_records(s.c, s.val, 0, <<>>), LAMBDA p :
        Try(group_reconcile(p.c, 1, p.val), LAMBDA d :
        Try(group_insert(d.c, d.val, <<>>), LAMBDA n :
        Try(update_group_lights(n.c, 1), LAMBDA u :
            Ret([update_group_scenes(u.c) EXCEPT
                    !.groups_updated = u.c.now,
                    !.refreshed = @ \cup {"groups"}], n.val)))))))

(* group = 16 - format(group, '016b').index('1'): the position of the      *)
(* first 1 from the most significant bit; index raises ValueError when     *)
(* there is none.                                                          *)
RECURSIVE FirstOne(_, _)
FirstOne(mask, j) ==
    IF (mask \div (2 ^ (15 - j))) % 2 = 1 THEN j ELSE FirstOne(mask, j + 1)

(* Lightify.update_scene_list.  The response is a count and the 20-byte    *)
(* records (idx, name, group bitmask) that follow it.                      *)
RECURSIVE scene_records(_, _, _, _)
scene_records(c, data, i, new_scenes) ==
    IF i >= data.num THEN Ret(c, new_scenes)
    ELSE IF i >= Len(data.recs) THEN Raise(c, "struct.error")
    ELSE IF data.recs[i + 1].group = 0 THEN Raise(c, "ValueError")
    ELSE
        LET r == data.recs[i + 1]
            group == 16 - FirstOne(r.group, 0)
            o == LiveNamed(c.scenes, c.sobj, r.name)
        IN  IF o # 0 /\ c.sobj[o].idx = r.idx /\ c.sobj[o].group = group
            THEN scene_records(c, data, i + 1,
                     KeySet(new_scenes, [key |-> r.name, id |-> o, obj |-> c.sobj[o]]))
            ELSE scene_records(c, data, i + 1,
                     KeySet(new_scenes, [key |-> r.name, id |-> 0,
                                         obj |-> Scene(r.idx, r.name, group)]))

RECURSIVE scene_reconcile(_, _, _)
scene_reconcile(c, k, new_scenes) ==
    IF k > Len(c.scenes) THEN Ret(c, new_scenes)
    ELSE LET o == c.scenes[k]
             name == c.sobj[o].name
         IN  IF \/ name \notin Keys(new_scenes)
                \/ c.sobj[o].idx # new_scenes[KeyPos(new_scenes, name)].obj.idx
                \/ c.sobj[o].group # new_scenes[KeyPos(new_scenes, name)].obj.group
             THEN Raise([c EXCEPT !.sobj[o] = Scene_mark_deleted(@),
                                  !.scenes = SeqRemove(@, k)], "RuntimeError")
             ELSE scene_reconcile(c, k + 1, KeyDel(new_scenes, name))

RECURSIVE scene_insert(_, _, _)
scene_insert(c, new_scenes, ids) ==
    IF new_scenes = <<>> THEN Ret(c, ids)
    ELSE LET o == Len(c.sobj) + 1
         IN  scene_insert([c EXCEPT !.sobj = Append(@, Head(new_scenes).obj),
                                    !.scenes = Append(@, o)],
                          Tail(new_scenes), Append(ids, o))

update_scene_list(c, throttling_interval, io) ==
    IF throttled(c, c.scenes_updated, throttling_interval)
    THEN Ret(c, <<>>)
    ELSE
        Try(build_scene_list(c), LAMBDA b :
        Try(send(b.c, b.val, TRUE, io), LAMBDA s :
        Try(scene_records(s.c, s.val, 0, <<>>), LAMBDA p :
        Try(scene_reconcile(p.c, 1, p.val), LAMBDA d :
        Try(scene_insert(d.c, d.val, <<>>), LAMBDA n :
            Ret([n.c EXCEPT !.scenes_updated = n.c.now,
                            !.refreshed = @ \cup {"scenes"}], n.val))))))

(* Scene.activate                                                          *)
(* Its mutant: the deleted flag is not looked at.                          *)
Scene_activate_undeleted(c, o, io) ==
    Try(build_command(c, COMMAND_ACTIVATE_SCENE, c.sobj[o].idx, <<>>), LAMBDA b :
    Try(send(b.c, b.val, TRUE, io), LAMBDA s :
        Ret(set_lights_updated(s.c), <<>>)))

Scene_activate(c, o, io) ==
    IF c.sobj[o].deleted THEN Ret(c, <<>>)
    ELSE
        Try(build_command(c, COMMAND_ACTIVATE_SCENE, c.sobj[o].idx, <<>>), LAMBDA b :
        Try(send(b.c, b.val, TRUE, io), LAMBDA s :
            Ret(set_lights_updated(s.c), <<>>)))

(* The accessors Lightify.lights, light_byname, scenes and groups: each    *)
(* refreshes what has a timestamp of 0 and returns the live map (the ids   *)
(* of its objects).                                                        *)
Lightify_lights(c, io) ==
    IF c.lights_updated = 0
    THEN Try(update_all_light_status(c, 0, io), LAMBDA u : Ret(u.c, u.c.lights))
    ELSE Ret(c, c.lights)

Lightify_light_byname(c, name, io) ==
    Try(Lightify_lights(c, io), LAMBDA u :
        IF \E k \in DOMAIN u.val : u.c.lobj[u.val[k]].name = name
        THEN Ret(u.c, u.val[SetMin({k \in DOMAIN u.val :
                                       u.c.lobj[u.val[k]].name = name})])
        ELSE Ret(u.c, "None"))

Lightify_scenes(c, io) ==
    IF c.scenes_updated = 0
    THEN Try(update_scene_list(c, 0, io), LAMBDA u : Ret(u.c, u.c.scenes))
    ELSE Ret(c, c.scenes)

Lightify_groups(c, io_lights, io_scenes, io_groups) ==
    Try(Lightify_lights(c, io_lights), LAMBDA l :
    Try(Lightify_scenes(l.c, io_scenes), LAMBDA sc :
    Try(IF sc.c.groups_updated = 0 THEN update_group_list(sc.c, 0, io_groups)
        ELSE Ret(sc.c, <<>>), LAMBDA g :
        Ret(g.c, g.c.groups))))

----------------------------------------------------------------------------
(* The environment: the gateway's responses, the socket's behaviour and    *)
(* the clock.                                                              *)

Addrs == 1..MaxAddr

(* The device the gateway reports at an address: light 1 is an RGB light, *)
(* light 2 a device of the unknown type 99, light 3 a plug, any other a    *)
(* tunable white light.                                                    *)
TypeAt(a) ==
    CASE a = 1 -> TYPE_LIGHT_RGB
      [] a = 2 -> 99
      [] a = 3 -> 16
      [] OTHER -> TYPE_LIGHT_TUNABLE_WHITE

LightNames == [a \in Addrs |-> <<"light", a>>]

(* The status blocks the gateway reports: variant 1 is the light of the    *)
(* end-to-end scenario, variant 2 a light that is off.                     *)
StatusRecord(a, v) ==
    IF v = 1
    THEN [addr |-> a, type_id |-> TypeAt(a), name |-> LightNames[a],
          reachable |-> 1, groups |-> 32768, onoff |-> 1, lum |-> 80,
          temp |-> 4000, red |-> 10, green |-> 20, blue |-> 30]
    ELSE [addr |-> a, type_id |-> TypeAt(a), name |-> LightNames[a],
          reachable |-> 0, groups |-> 32769, onoff |-> 0, lum |-> 0,
          temp |-> 2000, red |-> 1, green |-> 0, blue |-> 0]

RECURSIVE SeqsUpTo(_, _)
SeqsUpTo(S, n) ==
    IF n = 0 THEN {<<>>}
    ELSE LET shorter == SeqsUpTo(S, n - 1)
         IN  shorter \cup {Append(q, x) : q \in shorter, x \in S}

Distinct(q) == \A i, j \in DOMAIN q : i # j => q[i] # q[j]

(* The all-light-status responses: a count and the records that follow it, *)
(* of distinct addresses.  A response cut short announces one record more  *)
(* than it holds whole.                                                    *)
LightResponses ==
    {[num |-> Len(x[1]) + x[3],
      recs |-> [i \in DOMAIN x[1] |-> StatusRecord(x[1][i], x[2])]] :
        x \in {y \in SeqsUpTo(Addrs, MaxRecs) \X {1, 2} \X {0, 1} :
                 Distinct(y[1]) /\ (y[1] = <<>> => y[2] = 1)}}

(* What the socket does in one send: the exchange succeeds at once, or    *)
(* after a reconnect, or it fails (in the reconnect or in the second       *)
(* attempt).                                                               *)
FailIO == [try |-> <<"err", "err">>, conn |-> "ok", resp |-> <<>>]
RefusedIO == [try |-> <<"err", "err">>, conn |-> "err", resp |-> <<>>]
IOs(resps) ==
    {[try |-> <<"ok">>, conn |-> "ok", resp |-> r] : r \in resps} \cup {FailIO}
IOsAll(resps) ==
    {[try |-> t, conn |-> "ok", resp |-> r] :
        t \in {<<"ok">>, <<"err", "ok">>}, r \in resps}
    \cup {FailIO, RefusedIO}

NoResponse == {<<>>}

(* The throttling intervals callers pass: None (0) and MaxInterval.        *)
Intervals == {0, MaxInterval}

(* The clock starts late enough for a timestamp of 0 or OUTDATED_TIMESTAMP *)
(* to lie more than any throttling interval in the past.                   *)
Epoch == OUTDATED_TIMESTAMP + MaxInterval + 1

----------------------------------------------------------------------------
(* The setters and the aggregate reads of Group.                           *)

(* light.set_...(value, send=False): the setter of Light a setter of Group *)
(* hands its value to.                                                     *)
light_set(c, o, cmd) ==
    CASE cmd.op = "set_onoff" -> Light_set_onoff(c, o, cmd.onoff, FALSE, FailIO)
      [] cmd.op = "set_luminance" ->
             Light_set_luminance(c, o, cmd.lum, cmd.transition, FALSE, FailIO)
      [] cmd.op = "set_temperature" ->
             Light_set_temperature(c, o, cmd.temp, cmd.transition, FALSE, FailIO)
      [] OTHER ->
             Light_set_rgb(c, o, cmd.red, cmd.green, cmd.blue, cmd.transition,
                           FALSE, FailIO)

(* for addr in self.__lights: if addr in self.__conn.lights():             *)
(*     light = self.__conn.lights()[addr]; light.set_...(..., send=False)  *)
(* Each self.__conn.lights() refreshes the lights when no refresh has      *)
(* completed; io_l is what the socket does then.                           *)
(* Its mutant: the command is sent and no light is told.                   *)
group_propagate_nothing(c, addrs, cmd, io_l) == Ret(c, <<>>)

RECURSIVE group_propagate(_, _, _, _)
group_propagate(c, addrs, cmd, io_l) ==
    IF addrs = <<>> THEN Ret(c, <<>>)
    ELSE
        Try(Lightify_lights(c, io_l), LAMBDA m :
            IF LiveLight(m.c, Head(addrs)) = 0
            THEN group_propagate(m.c, Tail(addrs), cmd, io_l)
            ELSE
                Try(Lightify_lights(m.c, io_l), LAMBDA n :
                    IF LiveLight(n.c, Head(addrs)) = 0 THEN Raise(n.c, "KeyError")
                    ELSE
                        Try(light_set(n.c, LiveLight(n.c, Head(addrs)), cmd), LAMBDA s :
                            group_propagate(s.c, Tail(addrs), cmd, io_l))))

(* command = build...; self.__conn.send(command); the loop over the        *)
(* group's lights; self.__conn.set_lights_changed()                        *)
(* Its mutant: the setter recomputes the member lists of the groups.       *)
group_command_resync(built, addrs, cmd, io, io_l) ==
    Try(built, LAMBDA b :
    Try(send(b.c, b.val, TRUE, io), LAMBDA s :
    Try(group_propagate(s.c, addrs, cmd, io_l), LAMBDA p :
    Try(update_group_lights(p.c, 1), LAMBDA u :
        Ret(set_lights_changed(u.c), <<>>)))))

group_command(built, addrs, cmd, io, io_l) ==
    Try(built, LAMBDA b :
    Try(send(b.c, b.val, TRUE, io), LAMBDA s :
    Try(group_propagate(s.c, addrs, cmd, io_l), LAMBDA p :
        Ret(set_lights_changed(p.c), <<>>))))

(* Group.set_onoff                                                         *)
Group_set_onoff(c, o, onoff, io, io_l) ==
    LET g == c.gobj[o]
    IN  IF g.deleted THEN Ret(c, <<>>)
        ELSE group_command(build_onoff(c, g, onoff), g.lights,
                           [op |-> "set_onoff", onoff |-> onoff], io, io_l)

(* Group.set_luminance                                                     *)
Group_set_luminance(c, o, lum_in, transition, io, io_l) ==
    LET g == c.gobj[o]
        lum == Min(lum_in, MAX_LUMINANCE)
    IN  IF g.deleted THEN Ret(c, <<>>)
        ELSE group_command(build_luminance(c, g, lum, transition), g.lights,
                           [op |-> "set_luminance", lum |-> lum,
                            transition |-> transition], io, io_l)

(* Group.set_temperature                                                   *)
Group_set_temperature(c, o, temp_in, transition, io, io_l) ==
    LET g == c.gobj[o]
        temp == Min(Max(g.min_temp, temp_in), g.max_temp)
    IN  IF g.deleted THEN Ret(c, <<>>)
        ELSE group_command(build_temp(c, g, temp, transition), g.lights,
                           [op |-> "set_temperature", temp |-> temp,
                            transition |-> transition], io, io_l)

(* Group.set_rgb                                                           *)
Group_set_rgb(c, o, red_in, green_in, blue_in, transition, io, io_l) ==
    LET g == c.gobj[o]
        red == Min(red_in, MAX_COLOUR)
        green == Min(green_in, MAX_COLOUR)
        blue == Min(blue_in, MAX_COLOUR)
    IN  IF g.deleted THEN Ret(c, <<>>)
        ELSE group_command(build_colour(c, g, red, green, blue, transition), g.lights,
                           [op |-> "set_rgb", red |-> red, green |-> green,
                            blue |-> blue, transition |-> transition], io, io_l)

(* getattr(light, attr)(), as a tuple: the three colours of rgb(), the one *)
(* number of any other attribute.                                          *)
Light_attr(l, attr) ==
    CASE attr = "lum" -> <<l.lum>>
      [] attr = "temp" -> <<l.temp>>
      [] attr = "red" -> <<l.red>>
      [] attr = "green" -> <<l.green>>
      [] attr = "blue" -> <<l.blue>>
      [] OTHER -> <<l.red, l.green, l.blue>>

(* The order of Python on those values: that of the integers, and on the   *)
(* tuples of rgb() the lexicographic one.                                  *)
RECURSIVE ValueLess(_, _)
ValueLess(v, w) ==
    IF v = <<>> THEN FALSE
    ELSE Head(v) < Head(w) \/ (Head(v) = Head(w) /\ ValueLess(Tail(v), Tail(w)))
(* and on the pairs (feature in supported_features, value): False < True   *)
(* Its mutant: the pairs are ordered by the value alone.                   *)
PairLess_by_value(a, b) == ValueLess(a[2], b[2])
PairLess(a, b) == (~a[1] /\ b[1]) \/ (a[1] = b[1] /\ ValueLess(a[2], b[2]))

(* lights.sort(key=lambda t: (t[0], t[1]), reverse=True): a stable sort,   *)
(* the greater pairs first.                                                *)
RECURSIVE InsertDesc(_, _)
InsertDesc(q, a) ==
    IF q = <<>> THEN <<a>>
    ELSE IF PairLess(Head(q), a) THEN <<a>> \o q
    ELSE <<Head(q)>> \o InsertDesc(Tail(q), a)
RECURSIVE SortDesc(_)
SortDesc(q) ==
    IF q = <<>> THEN <<>>
    ELSE InsertDesc(SortDesc(SeqRemove(q, Len(q))), q[Len(q)])

(* lights = [self.__conn.lights()[addr] for addr in self.__lights          *)
(*           if addr in self.__conn.lights()]                              *)
RECURSIVE group_members(_, _, _, _)
group_members(c, addrs, found, io_l) ==
    IF addrs = <<>> THEN Ret(c, found)
    ELSE
        Try(Lightify_lights(c, io_l), LAMBDA m :
            IF LiveLight(m.c, Head(addrs)) = 0
            THEN group_members(m.c, Tail(addrs), found, io_l)
            ELSE
                Try(Lightify_lights(m.c, io_l), LAMBDA n :
                    IF LiveLight(n.c, Head(addrs)) = 0 THEN Raise(n.c, "KeyError")
                    ELSE group_members(n.c, Tail(addrs),
                                       Append(found, LiveLight(n.c, Head(addrs))),
                                       io_l)))

(* Group._lights_attribute; the value returned is the one element of val.  *)
Group_lights_attribute(c, o, attr, feature, io_l) ==
    Try(group_members(c, c.gobj[o].lights, <<>>, io_l), LAMBDA m :
        IF m.val = <<>> THEN Ret(m.c, <<0>>)
        ELSE
            LET pairs == [i \in DOMAIN m.val |->
                             <<feature \in m.c.lobj[m.val[i]].supported_features,
                               Light_attr(m.c.lobj[m.val[i]], attr)>>]
                first == SortDesc(pairs)[1][2]
            IN  Ret(m.c, IF attr = "rgb" THEN <<first>> ELSE first))

(* Group.lum, temp, red, green, blue and rgb: the attribute each reads and *)
(* the feature it orders by.                                               *)
Group_read_feature(attr) ==
    CASE attr = "lum" -> "lum"
      [] attr = "temp" -> "temp"
      [] OTHER -> "rgb"
Group_read(c, o, attr, io_l) ==
    Group_lights_attribute(c, o, attr, Group_read_feature(attr), io_l)

----------------------------------------------------------------------------
(* The state of the client when a public call starts, and the state that   *)
(* the call leaves.                                                        *)

(* The threads that share the client.  A thread is outside send ("idle"),  *)
(* about to enter it with a frame ("call"), or inside it: before sendall,  *)
(* before recv, or before the reconnect; `attempt` is 1 in the top-level   *)
(* send and 2 in the send after the reconnect.  A thread that left send    *)
(* has what send returned ("done") or raised ("failed").                   *)
(* Where the lock is followed through a whole call chain, `prog` is what   *)
(* the thread has still to do of the chain, `depth` the number of          *)
(* `with self.__lock` blocks it is inside and `local` the value of         *)
(* self.__seq it loaded; inside send's read loop `expected` is the number  *)
(* of bytes still to read.                                                 *)
Threads == 1..MaxThreads
Idle == [pc |-> "idle", frame |-> <<>>, attempt |-> 0, got |-> <<>>,
         prog |-> <<>>, depth |-> 0, local |-> 0, expected |-> 0]

(* A connected socket: the frames the gateway has received and not         *)
(* answered, and the responses it has sent that nobody has read.           *)
NewSocket == [inflight |-> <<>>, inbox |-> <<>>]

Client ==
    [seq |-> seq, lights |-> lights, lobj |-> lobj, groups |-> groups,
     gobj |-> gobj, scenes |-> scenes, sobj |-> sobj,
     lights_updated |-> lights_updated, lights_changed |-> lights_changed,
     groups_updated |-> groups_updated, scenes_updated |-> scenes_updated,
     lights_hash |-> lights_hash, now |-> now, refreshed |-> refreshed,
     wrote |-> <<>>, read |-> <<>>, conns |-> 0]

(* The fields of the Lightify object after a call, and what the caller got. *)
Store(r, cl) ==
    /\ seq' = r.c.seq
    /\ lights' = r.c.lights
    /\ lobj' = r.c.lobj
    /\ groups' = r.c.groups
    /\ gobj' = r.c.gobj
    /\ scenes' = r.c.scenes
    /\ sobj' = r.c.sobj
    /\ lights_updated' = r.c.lights_updated
    /\ lights_changed' = r.c.lights_changed
    /\ groups_updated' = r.c.groups_updated
    /\ scenes_updated' = r.c.scenes_updated
    /\ lights_hash' = r.c.lights_hash
    /\ now' = r.c.now
    /\ refreshed' = r.c.refreshed
    /\ wrote' = r.c.wrote
    /\ read' = r.c.read
    /\ conns' = r.c.conns
    /\ ret' = [exc |-> r.exc, val |-> r.val]
    /\ call' = cl

Commit(r, cl) ==
    /\ Store(r, cl)
    /\ UNCHANGED <<issued, thr, lock, sock>>

(* Lightify.__init__                                                       *)
Init ==
    /\ seq = 0
    /\ lights = <<>>
    /\ lobj = <<>>
    /\ groups = <<>>
    /\ gobj = <<>>
    /\ scenes = <<>>
    /\ sobj = <<>>
    /\ lights_updated = 0
    /\ lights_changed = 0
    /\ groups_updated = 0
    /\ scenes_updated = 0
    /\ lights_hash = <<>>
    /\ now = Epoch
    /\ refreshed = {}
    /\ wrote = <<>>
    /\ read = <<>>
    /\ conns = 1
    /\ ret = [exc |-> "none", val |-> <<>>]
    /\ call = [op |-> "__init__"]
    /\ issued = <<>>
    /\ thr = [t \in Threads |-> Idle]
    /\ lock = 0
    /\ sock = NewSocket

(* The clock advances.                                                     *)
Tick ==
    /\ now < Epoch + MaxTicks
    /\ now' = now + 1
    /\ UNCHANGED <<seq, lights, lobj, groups, gobj, scenes, sobj, lights_updated,
                   lights_changed, groups_updated, scenes_updated, lights_hash,
                   call, ret, wrote, read, conns, refreshed, issued, thr, lock,
                   sock>>

(* A public call m, given what the socket does: the environment is asked  *)
(* only when the call reaches the socket.  A behaviour builds at most cap  *)
(* frames.                                                                 *)
Call(m(_), ios, cl, cap) ==
    \E r \in {m(FailIO)} :
        IF r.c.wrote = <<>> THEN Commit(r, cl)
        ELSE /\ seq < cap
             /\ \E io \in ios : \E q \in {m(io)} : Commit(q, cl)
             /\ seq' <= cap

UpdateAllLightStatus(resps, ts, cap) ==
    \E t \in ts :
        Call(LAMBDA io : update_all_light_status(Client, t, io), IOs(resps),
             [op |-> "update_all_light_status", interval |-> t, at |-> now], cap)

UpdateGroupList(resps, ts, cap) ==
    \E t \in ts :
        Call(LAMBDA io : update_group_list(Client, t, io), IOs(resps),
             [op |-> "update_group_list", interval |-> t, at |-> now], cap)

UpdateSceneList(resps, ts, cap) ==
    \E t \in ts :
        Call(LAMBDA io : update_scene_list(Client, t, io), IOs(resps),
             [op |-> "update_scene_list", interval |-> t, at |-> now], cap)

SceneActivate(cap) ==
    \E o \in DOMAIN sobj :
        Call(LAMBDA io : Scene_activate(Client, o, io), IOs(NoResponse),
             [op |-> "Scene.activate", scene |-> o], cap)

GetLights(resps, cap) ==
    Call(LAMBDA io : Lightify_lights(Client, io), IOs(resps), [op |-> "lights"], cap)

GetLightByName(resps, names, cap) ==
    \E name \in names :
        Call(LAMBDA io : Lightify_light_byname(Client, name, io), IOs(resps),
             [op |-> "light_byname", name |-> name], cap)

GetScenes(resps, cap) ==
    Call(LAMBDA io : Lightify_scenes(Client, io), IOs(resps), [op |-> "scenes"], cap)

(* groups() makes up to three exchanges: the socket is asked about each    *)
(* refresh that is due.                                                    *)
GetGroups(lresps, sresps, gresps, cap) ==
    \E r \in {Lightify_groups(Client, FailIO, FailIO, FailIO)} :
        IF r.c.wrote = <<>> THEN Commit(r, [op |-> "groups"])
        ELSE /\ seq < cap
             /\ \E il \in (IF lights_updated = 0 THEN IOs(lresps) ELSE {FailIO}),
                   is \in (IF scenes_updated = 0 THEN IOs(sresps) ELSE {FailIO}),
                   ig \in (IF groups_updated = 0 THEN IOs(gresps) ELSE {FailIO}) :
                    \E q \in {Lightify_groups(Client, il, is, ig)} :
                        Commit(q, [op |-> "groups"])
             /\ seq' <= cap

LightSetOnoff(values, cap) ==
    \E o \in DOMAIN lobj, v \in values :
        Call(LAMBDA io : Light_set_onoff(Client, o, v, TRUE, io), IOs(NoResponse),
             [op |-> "Light.set_onoff", light |-> o, onoff |-> v], cap)

LightSetLuminance(values, cap) ==
    \E o \in DOMAIN lobj, v \in values :
        Call(LAMBDA io : Light_set_luminance(Client, o, v, 0, TRUE, io),
             IOs(NoResponse),
             [op |-> "Light.set_luminance", light |-> o, lum |-> v], cap)

LightSetTemperature(values, cap) ==
    \E o \in DOMAIN lobj, v \in values :
        Call(LAMBDA io : Light_set_temperature(Client, o, v, 0, TRUE, io),
             IOs(NoResponse),
             [op |-> "Light.set_temperature", light |-> o, temp |-> v], cap)

LightSetRgb(values, cap) ==
    \E o \in DOMAIN lobj, v \in values :
        Call(LAMBDA io : Light_set_rgb(Client, o, v[1], v[2], v[3], 0, TRUE, io),
             IOs(NoResponse),
             [op |-> "Light.set_rgb", light |-> o, rgb |-> v], cap)

----------------------------------------------------------------------------
(* Spec: the light synchronizer.  Refreshes of the lights, on/off          *)
(* commands to the lights, and the clock.                                  *)

RefreshLights == UpdateAllLightStatus(LightResponses, Intervals, MaxSeq)
SwitchLight == LightSetOnoff(BOOLEAN, MaxSeq)

Next ==
    \/ Tick
    \/ RefreshLights
    \/ SwitchLight

Spec == Init /\ [][Next]_vars

----------------------------------------------------------------------------
(* SpecLight: one light.  The gateway reports a device of any kind at      *)
(* address 1, in either status, or no device at all; the caller uses all   *)
(* four setters of the Light objects, with arguments inside and outside    *)
(* the ranges.                                                             *)

(* A type id of each kind of DEVICE_TYPES, the type added by the caller    *)
(* and an unknown type.                                                    *)
LightTypes == {1, 2, 10, 16, 32, 64, 99, 128}

(* A device keeps its type: once an object for the address exists the      *)
(* gateway reports that object's type.                                     *)
TypesNow == IF lobj = <<>> THEN LightTypes ELSE {lobj[1].type_id}

OneLightResponses ==
    {[num |-> 0, recs |-> <<>>]}
    \cup {[num |-> 1, recs |-> <<[StatusRecord(1, v) EXCEPT !.type_id = t]>>] :
              t \in TypesNow, v \in {1, 2}}

OnoffInputs == BOOLEAN
LumInputs == {-1, 0, 50, 150}
TempInputs == {1000, 3000, 9000}
RgbInputs == {<<1, 2, 3>>, <<300, 0, 255>>}

SightLight == UpdateAllLightStatus(OneLightResponses, {0}, MaxSeqLight)
SetOnoff == LightSetOnoff(OnoffInputs, MaxSeqLight)
SetLuminance == LightSetLuminance(LumInputs, MaxSeqLight)
SetTemperature == LightSetTemperature(TempInputs, MaxSeqLight)
SetRgb == LightSetRgb(RgbInputs, MaxSeqLight)

NextLight ==
    \/ SightLight
    \/ SetOnoff
    \/ SetLuminance
    \/ SetTemperature
    \/ SetRgb

SpecLight == Init /\ [][NextLight]_vars

----------------------------------------------------------------------------
(* SpecSend: the connection manager.  The caller builds one of the three   *)
(* list requests and hands it to send, with or without leave to reconnect; *)
(* the socket fails in the first attempt, in the reconnect, in the second  *)
(* attempt, or not at all.                                                 *)

Payloads == {p \in LightResponses : p.num = Len(p.recs) /\ p.num <= 1}

Requests(c) ==
    {build_all_light_status(c, 1), build_group_list(c), build_scene_list(c)}

SendFrame ==
    /\ seq < MaxSeqSend
    /\ \E b \in Requests(Client), reconnect \in BOOLEAN, io \in IOsAll(Payloads) :
           \E q \in {send(b.c, b.val, reconnect, io)} :
               Commit(q, [op |-> "send", data |-> b.val, reconnect |-> reconnect,
                          io |-> io])

NextSend == SendFrame

SpecSend == Init /\ [][NextSend]_vars

----------------------------------------------------------------------------
(* The gateway of SpecSync and SpecLazy has at most one light, at address  *)
(* 1 and in group 16; groups g and h; scenes s and t.                      *)

Whole(recs) == [num |-> Len(recs), recs |-> recs]

SyncLightResponses ==
    {Whole(<<>>), Whole(<<StatusRecord(1, 1)>>), [num |-> 1, recs |-> <<>>]}

(* Group g changes its idx from 16 to 1; group h (idx 2) has no lights.    *)
GroupResponses ==
    {Whole(<<>>), Whole(<<[idx |-> 16, name |-> "g"]>>),
     Whole(<<[idx |-> 1, name |-> "g"]>>),
     Whole(<<[idx |-> 16, name |-> "g"], [idx |-> 2, name |-> "h"]>>)}

(* Scene s of group 16 or of group 1; scene t with an empty group bitmask. *)
SceneResponses ==
    {Whole(<<>>), Whole(<<[idx |-> 1, name |-> "s", group |-> 32768]>>),
     Whole(<<[idx |-> 1, name |-> "s", group |-> 1]>>),
     Whole(<<[idx |-> 2, name |-> "t", group |-> 0]>>)}

(* SpecSync: the three refreshes, throttled or not, and the clock.         *)

SyncLights == UpdateAllLightStatus(SyncLightResponses, Intervals, MaxSeqSync)
SyncGroups == UpdateGroupList(GroupResponses, Intervals, MaxSeqSync)
SyncScenes == UpdateSceneList(SceneResponses, Intervals, MaxSeqSync)

NextSync ==
    \/ Tick
    \/ SyncLights
    \/ SyncGroups
    \/ SyncScenes

SpecSync == Init /\ [][NextSync]_vars

(* SpecLazy: the lazy accessors, the unthrottled refreshes and the         *)
(* activation of scenes.                                                   *)

LoadLights == UpdateAllLightStatus(SyncLightResponses, {0}, MaxSeqLazy)
LoadGroups == UpdateGroupList(GroupResponses, {0}, MaxSeqLazy)
LoadScenes == UpdateSceneList(SceneResponses, {0}, MaxSeqLazy)
Lights == GetLights(SyncLightResponses, MaxSeqLazy)
LightByName == GetLightByName(SyncLightResponses, {LightNames[1]}, MaxSeqLazy)
Scenes == GetScenes(SceneResponses, MaxSeqLazy)
Groups == GetGroups(SyncLightResponses, SceneResponses, GroupResponses, MaxSeqLazy)
ActivateScene == SceneActivate(MaxSeqLazy)

NextLazy ==
    \/ LoadLights
    \/ LoadGroups
    \/ LoadScenes
    \/ Lights
    \/ LightByName
    \/ Scenes
    \/ Groups
    \/ ActivateScene

SpecLazy == Init /\ [][NextLazy]_vars

-----------------------------------------------------------------------------------------------------------------------------------------------
(* SpecHint: throttled refreshes of the lights around the activation of a  *)
(* scene.  The caller refreshes the scenes, refreshes the lights with or   *)
(* without a throttling interval and activates scenes, while the clock     *)
(* advances.                                                               *)

HintLights == UpdateAllLightStatus(SyncLightResponses, Intervals, MaxSeqHint)
HintScenes == UpdateSceneList(SceneResponses, {0}, MaxSeqHint)
HintActivate == SceneActivate(MaxSeqHint)

NextHint ==
    \/ Tick
    \/ HintLights
    \/ HintScenes
    \/ HintActivate

SpecHint == Init /\ [][NextHint]_vars

----------
(* SpecGroup: groups with their member lights.  The gateway has the RGB    *)
(* light 1 and the plug 3 in group 16 and the light 2 of an unknown type,  *)
(* which reports no colour, in the groups 16 and 1; group g is group 16    *)
(* or group 1, group h is group 1.  The caller refreshes the lights and    *)
(* the groups, uses the four setters of the Group objects and reads their  *)
(* aggregates.                                                             *)

MemberRecord(a) == StatusRecord(a, IF a = 2 THEN 2 ELSE 1)

MemberResponses ==
    {Whole([i \in DOMAIN q |-> MemberRecord(q[i])]) :
        q \in {y \in SeqsUpTo(Addrs, MaxRecs) : Distinct(y)}}

MemberGroupResponses ==
    {Whole(<<>>), Whole(<<[idx |-> 16, name |-> "g"]>>),
     Whole(<<[idx |-> 1, name |-> "g"]>>),
     Whole(<<[idx |-> 16, name |-> "g"], [idx |-> 1, name |-> "h"]>>)}

GroupAttrs == {"lum", "temp", "red", "green", "blue", "rgb"}

(* A call of a method m of a Group: the socket is asked about the command  *)
(* and about the refresh of the lights, should the call come to one.       *)
GroupCall(m(_, _), cl) ==
    \E r \in {m(FailIO, FailIO)} :
        IF r.c.wrote = <<>> THEN Commit(r, cl)
        ELSE /\ seq < MaxSeqGroup
             /\ \E io \in IOs(NoResponse),
                   il \in (IF lights_updated = 0 THEN IOs(MemberResponses)
                           ELSE {FailIO}) :
                    \E q \in {m(io, il)} : Commit(q, cl)
             /\ seq' <= MaxSeqGroup

MemberLights == UpdateAllLightStatus(MemberResponses, {0}, MaxSeqGroup)
MemberGroups == UpdateGroupList(MemberGroupResponses, {0}, MaxSeqGroup)

GroupSetOnoff ==
    \E o \in DOMAIN gobj, v \in OnoffInputs :
        GroupCall(LAMBDA io, il : Group_set_onoff(Client, o, v, io, il),
                  [op |-> "Group.set_onoff", group |-> o, onoff |-> v])

GroupSetLuminance ==
    \E o \in DOMAIN gobj, v \in LumInputs :
        GroupCall(LAMBDA io, il : Group_set_luminance(Client, o, v, 0, io, il),
                  [op |-> "Group.set_luminance", group |-> o, lum |-> v])

GroupSetTemperature ==
    \E o \in DOMAIN gobj, v \in TempInputs :
        GroupCall(LAMBDA io, il : Group_set_temperature(Client, o, v, 0, io, il),
                  [op |-> "Group.set_temperature", group |-> o, temp |-> v])

GroupSetRgb ==
    \E o \in DOMAIN gobj, v \in RgbInputs :
        GroupCall(LAMBDA io, il : Group_set_rgb(Client, o, v[1], v[2], v[3], 0, io, il),
                  [op |-> "Group.set_rgb", group |-> o, rgb |-> v])

GroupReadAttr ==
    \E o \in DOMAIN gobj, attr \in GroupAttrs :
        GroupCall(LAMBDA io, il : Group_read(Client, o, attr, il),
                  [op |-> "Group.read", group |-> o, attr |-> attr])

NextGroup ==
    \/ MemberLights
    \/ MemberGroups
    \/ GroupSetOnoff
    \/ GroupSetLuminance
    \/ GroupSetTemperature
    \/ GroupSetRgb
    \/ GroupReadAttr

SpecGroup == Init /\ [][NextGroup]_vars

----------------------------------------------------------------------------
(* SpecThreads: threads in Lightify.send, step by step.  Each thread       *)
(* builds a frame and calls send with it; the gateway answers the frames   *)
(* it received on the connection, in order, when it gets to it; a recv     *)
(* that finds nothing times out (socket.timeout is a socket.error).        *)

ClientState == <<lights, lobj, groups, gobj, scenes, sobj, lights_updated,
                 lights_changed, groups_updated, scenes_updated, lights_hash,
                 now, call, ret, wrote, read, conns, refreshed, issued>>

(* command = self.build_all_light_status(); _next_seq takes the lock for   *)
(* the increment.                                                          *)
thread_build(t) ==
    /\ thr[t].pc \in {"idle", "done", "failed"}
    /\ lock = 0
    /\ seq < MaxSeqThreads
    /\ \E b \in {build_all_light_status(Client, 1)} :
           /\ seq' = b.c.seq
           /\ thr' = [thr EXCEPT ![t] = [Idle EXCEPT !.pc = "call", !.frame = b.val]]
    /\ UNCHANGED <<lock, sock, ClientState>>

(* send: with self.__lock                                                  *)
send_acquire(t) ==
    /\ thr[t].pc = "call"
    /\ lock = 0
    /\ lock' = t
    /\ thr' = [thr EXCEPT ![t].pc = "sendall", ![t].attempt = 1]
    /\ UNCHANGED <<seq, sock, ClientState>>

(* what follows a socket.error: the reconnect in the top-level send, the   *)
(* raise (which leaves the with block) in the send after the reconnect     *)
send_except(t) ==
    /\ thr' = [thr EXCEPT ![t].pc = IF thr[t].attempt = 1 THEN "connect" ELSE "failed"]
    /\ lock' = IF thr[t].attempt = 1 THEN lock ELSE 0

(* self.__sock.sendall(data): the gateway receives the frame, or the       *)
(* connection is found broken                                              *)
send_sendall(t) ==
    /\ thr[t].pc = "sendall"
    /\ \/ /\ sock' = [sock EXCEPT !.inflight = Append(@, thr[t].frame)]
          /\ thr' = [thr EXCEPT ![t].pc = "recv"]
          /\ UNCHANGED lock
       \/ /\ send_except(t)
          /\ UNCHANGED sock
    /\ UNCHANGED <<seq, ClientState>>

(* self.__sock.recv: the length and then the rest of the next response on  *)
(* the connection; send returns it and leaves the with block               *)
send_recv(t) ==
    /\ thr[t].pc = "recv"
    /\ sock.inbox # <<>>
    /\ sock' = [sock EXCEPT !.inbox = Tail(@)]
    /\ thr' = [thr EXCEPT ![t].pc = "done", ![t].got = Head(sock.inbox)]
    /\ lock' = 0
    /\ UNCHANGED <<seq, ClientState>>

(* self.__sock.recv raises socket.timeout: nothing arrived in time         *)
send_timeout(t) ==
    /\ thr[t].pc = "recv"
    /\ sock.inbox = <<>>
    /\ send_except(t)
    /\ UNCHANGED <<seq, sock, ClientState>>

(* self._connect(); return self.send(data, reconnect=False): the lock is   *)
(* re-entrant.  A refused connect raises out of send.                      *)
send_connect(t) ==
    /\ thr[t].pc = "connect"
    /\ sock' = NewSocket
    /\ \/ /\ thr' = [thr EXCEPT ![t].pc = "sendall", ![t].attempt = 2]
          /\ UNCHANGED lock
       \/ /\ thr' = [thr EXCEPT ![t].pc = "failed"]
          /\ lock' = 0
    /\ UNCHANGED <<seq, ClientState>>

(* The gateway answers the oldest frame it has on the connection.         *)
gateway_answer ==
    /\ sock.inflight # <<>>
    /\ sock' = [inflight |-> Tail(sock.inflight),
                inbox |-> Append(sock.inbox, [to |-> Head(sock.inflight)])]
    /\ UNCHANGED <<seq, thr, lock, ClientState>>

NextThreads ==
    \/ \E t \in Threads : thread_build(t)
    \/ \E t \in Threads : send_acquire(t)
    \/ \E t \in Threads : send_sendall(t)
    \/ \E t \in Threads : send_recv(t)
    \/ \E t \in Threads : send_timeout(t)
    \/ \E t \in Threads : send_connect(t)
    \/ gateway_answer

SpecThreads == Init /\ [][NextThreads]_vars

----------------------------------------------------------------------------
(* SpecFrames: the sequence generator and the three command builders,      *)
(* called with payloads of every length up to MaxPayload, for as long as   *)
(* the caller likes: the counter goes all the way round.                   *)

FrameCommands == {COMMAND_ALL_LIGHT_STATUS, COMMAND_ONOFF}
(* one payload of each length: the bytes 255, 254, ...                     *)
FramePayloads == {[i \in 1..n |-> 256 - i] : n \in 0..MaxPayload}
(* group and scene indices; 300 does not fit the index byte                *)
FrameIdxs == {1, 16, 300}
(* light addresses: one of a single byte, one of four                      *)
FrameAddrs == {1, 16777217}

NextSeqCall == Commit(next_seq(Client), [op |-> "_next_seq"])

BuildGlobal ==
    \E command \in FrameCommands, data \in FramePayloads :
        Commit(build_global_command(Client, command, data),
               [op |-> "build_global_command", command |-> command, data |-> data])

BuildCommand ==
    \E command \in FrameCommands, idx \in FrameIdxs, data \in FramePayloads :
        Commit(build_command(Client, command, idx, data),
               [op |-> "build_command", command |-> command, idx |-> idx,
                data |-> data])

BuildLightCommand ==
    \E command \in FrameCommands, addr \in FrameAddrs, data \in FramePayloads :
        Commit(build_light_command(Client, command, addr, data),
               [op |-> "build_light_command", command |-> command, addr |-> addr,
                data |-> data])

NextFrames ==
    \/ NextSeqCall
    \/ BuildGlobal
    \/ BuildCommand
    \/ BuildLightCommand

SpecFrames == Init /\ [][NextFrames]_vars

----------------------------------------------------------------------------
(* SpecRecv: the read loop of Lightify.send, recv by recv.  The gateway's  *)
(* response (its length prefix and the bytes the prefix announces) is on   *)
(* the connection, alone or followed by the first bytes of something else; *)
(* a recv(n) returns some of the next n bytes, at least one.               *)

RecvBodies == SeqsUpTo({7, 9}, MaxBody)
RecvTrailers == {<<>>, <<5, 0>>}

(* send: with self.__lock: self.__sock.sendall(data); the answer is on the *)
(* connection when the thread comes to read                                *)
recv_sendall(t) ==
    /\ thr[t].pc \in {"idle", "done", "failed"}
    /\ lock = 0
    /\ lock' = t
    /\ \E body \in RecvBodies, trailer \in RecvTrailers :
           /\ sock' = [inflight |-> <<>>,
                       inbox |-> LE(Len(body), 2) \o body \o trailer]
           /\ call' = [op |-> "send", stream |-> LE(Len(body), 2) \o body \o trailer]
    /\ thr' = [thr EXCEPT ![t] = [Idle EXCEPT !.pc = "recv_length"]]
    /\ ret' = [exc |-> "none", val |-> <<>>]
    /\ UNCHANGED <<seq, issued, lights, lobj, groups, gobj, scenes, sobj,
                   lights_updated, lights_changed, groups_updated, scenes_updated,
                   lights_hash, now, wrote, read, conns, refreshed>>

(* received_data = self.__sock.recv(lengthsize);                           *)
(* (length,) = struct.unpack('<H', received_data[:lengthsize]), which      *)
(* raises struct.error when it is given one byte; send catches             *)
(* socket.error only.  expected = length + 2 - len(received_data);         *)
(* a length of 0 is returned at once.                                      *)
recv_length(t) ==
    /\ thr[t].pc = "recv_length"
    /\ \E n \in 1..Min(2, Len(sock.inbox)) :
           /\ sock' = [sock EXCEPT !.inbox = SubSeq(@, n + 1, Len(@))]
           /\ IF n < 2
              THEN /\ thr' = [thr EXCEPT ![t].pc = "failed"]
                   /\ ret' = [exc |-> "struct.error", val |-> <<>>]
                   /\ lock' = 0
              ELSE LET length == LEValue(SubSeq(sock.inbox, 1, 2))
                       expected == length + 2 - n
                   IN  /\ thr' = [thr EXCEPT ![t].expected = expected,
                                             ![t].got = <<>>,
                                             ![t].pc = IF expected > 0 THEN "recv_rest"
                                                       ELSE "done"]
                       /\ ret' = ret
                       /\ lock' = IF expected > 0 THEN lock ELSE 0
    /\ UNCHANGED <<seq, issued, lights, lobj, groups, gobj, scenes, sobj,
                   lights_updated, lights_changed, groups_updated, scenes_updated,
                   lights_hash, now, call, wrote, read, conns, refreshed>>

(* while expected > 0: received_data = self.__sock.recv(expected);         *)
(* total_received_data += received_data; expected -= len(received_data);   *)
(* return total_received_data                                              *)
recv_rest(t) ==
    /\ thr[t].pc = "recv_rest"
    /\ \E n \in 1..Min(thr[t].expected, Len(sock.inbox)) :
           /\ sock' = [sock EXCEPT !.inbox = SubSeq(@, n + 1, Len(@))]
           /\ thr' = [thr EXCEPT ![t].got = @ \o SubSeq(sock.inbox, 1, n),
                                 ![t].expected = @ - n,
                                 ![t].pc = IF thr[t].expected > n THEN "recv_rest"
                                           ELSE "done"]
           /\ lock' = IF thr[t].expected > n THEN lock ELSE 0
    /\ UNCHANGED <<seq, ClientState>>

NextRecv ==
    \/ \E t \in Threads : recv_sendall(t)
    \/ \E t \in Threads : recv_length(t)
    \/ \E t \in Threads : recv_rest(t)

SpecRecv == Init /\ [][NextRecv]_vars

----------------------------------------------------------------------------
(* SpecClose: the read loop of Lightify.send on a connection that ends.    *)
(* Of the gateway's response (the length prefix and the bytes it           *)
(* announces) the first bytes arrive, all of them or none; after them the  *)
(* peer has closed the connection (recv returns no byte), nothing arrives  *)
(* in time (recv raises socket.timeout) or the connection is reset (recv   *)
(* raises socket.error).                                                   *)

SocketEnds == {"closed", "timeout", "reset"}

CloseStreams ==
    UNION {{[delivered |-> SubSeq(full, 1, k), end |-> e] :
               k \in 0..Len(full), e \in SocketEnds} :
           full \in {LE(Len(body), 2) \o body : body \in RecvBodies}}

CloseKept == <<seq, issued, lights, lobj, groups, gobj, scenes, sobj,
               lights_updated, lights_changed, groups_updated, scenes_updated,
               lights_hash, now, wrote, read, conns, refreshed>>

(* send: with self.__lock: self.__sock.sendall(data)                       *)
close_sendall(t) ==
    /\ thr[t].pc \in {"idle", "done", "failed"}
    /\ lock = 0
    /\ lock' = t
    /\ \E s \in CloseStreams :
           /\ sock' = [inflight |-> <<>>, inbox |-> s.delivered]
           /\ call' = [op |-> "send", delivered |-> s.delivered, end |-> s.end]
    /\ thr' = [thr EXCEPT ![t] = [Idle EXCEPT !.pc = "recv_length", !.attempt = 1]]
    /\ ret' = [exc |-> "none", val |-> <<>>]
    /\ UNCHANGED CloseKept

(* send is left: its locals are gone, the with block is left.              *)
close_leave(t, pc, exc) ==
    /\ thr' = [thr EXCEPT ![t] = [Idle EXCEPT !.pc = pc]]
    /\ ret' = [exc |-> exc, val |-> <<>>]
    /\ lock' = 0

(* except socket.error: the top-level send reconnects, the send after the  *)
(* reconnect raises                                                        *)
close_except(t) ==
    /\ IF thr[t].attempt = 1
       THEN /\ thr' = [thr EXCEPT ![t].pc = "connect"]
            /\ UNCHANGED <<lock, ret>>
       ELSE close_leave(t, "failed", "socket.error")
    /\ sock' = sock

(* received_data = self.__sock.recv(lengthsize);                           *)
(* (length,) = struct.unpack('<H', received_data[:lengthsize]): on fewer   *)
(* than two bytes, and on the empty string of a closed connection, it      *)
(* raises struct.error, which send does not catch.                         *)
close_length(t) ==
    /\ thr[t].pc = "recv_length"
    /\ IF sock.inbox # <<>>
       THEN \E n \in 1..Min(2, Len(sock.inbox)) :
               /\ sock' = [sock EXCEPT !.inbox = SubSeq(@, n + 1, Len(@))]
               /\ IF n < 2
                  THEN close_leave(t, "failed", "struct.error")
                  ELSE LET length == LEValue(SubSeq(sock.inbox, 1, 2))
                           expected == length + 2 - n
                       IN  IF expected > 0
                           THEN /\ thr' = [thr EXCEPT ![t].expected = expected,
                                                      ![t].pc = "recv_rest"]
                                /\ UNCHANGED <<lock, ret>>
                           ELSE close_leave(t, "done", "none")
       ELSE IF call.end = "closed"
       THEN /\ close_leave(t, "failed", "struct.error")
            /\ sock' = sock
       ELSE close_except(t)
    /\ UNCHANGED <<call, CloseKept>>

(* while expected > 0: received_data = self.__sock.recv(expected);         *)
(* total_received_data += received_data; expected -= len(received_data).   *)
(* On a closed connection recv returns the empty string: nothing is added, *)
(* nothing is subtracted, and the loop goes round as it was.  (The bytes   *)
(* read are not kept here: SpecRecv follows them.)                         *)
close_rest(t) ==
    /\ thr[t].pc = "recv_rest"
    /\ IF sock.inbox # <<>>
       THEN \E n \in 1..Min(thr[t].expected, Len(sock.inbox)) :
               /\ sock' = [sock EXCEPT !.inbox = SubSeq(@, n + 1, Len(@))]
               /\ IF thr[t].expected > n
                  THEN /\ thr' = [thr EXCEPT ![t].expected = @ - n]
                       /\ UNCHANGED <<lock, ret>>
                  ELSE close_leave(t, "done", "none")
       ELSE IF call.end = "closed"
       THEN UNCHANGED <<sock, thr, lock, ret>>
       ELSE close_except(t)
    /\ UNCHANGED <<call, CloseKept>>

(* self._connect(); return self.send(data, reconnect=False): a refused     *)
(* connect raises out of send; on the new connection the frame is sent     *)
(* again and the answer comes as far as it comes.                          *)
close_connect(t) ==
    /\ thr[t].pc = "connect"
    /\ \/ /\ \E s \in CloseStreams :
                 /\ sock' = [inflight |-> <<>>, inbox |-> s.delivered]
                 /\ call' = [op |-> "send", delivered |-> s.delivered, end |-> s.end]
          /\ thr' = [thr EXCEPT ![t].pc = "recv_length", ![t].attempt = 2]
          /\ UNCHANGED <<lock, ret>>
       \/ /\ sock' = NewSocket
          /\ close_leave(t, "failed", "socket.error")
          /\ call' = call
    /\ UNCHANGED CloseKept

NextClose ==
    \/ \E t \in Threads : close_sendall(t)
    \/ \E t \in Threads : close_length(t)
    \/ \E t \in Threads : close_rest(t)
    \/ \E t \in Threads : close_connect(t)

(* A thread inside send goes on running.                                   *)
SpecClose ==
    /\ Init /\ [][NextClose]_vars
    /\ \A t \in Threads :
           WF_vars(close_length(t) \/ close_rest(t) \/ close_connect(t))

----------------------------------------------------------------------------
(* The lock, followed through whole call chains.  A chain is what one      *)
(* public call does to the lock, the counter and the socket, in order:     *)
(* entering and leaving the `with self.__lock` blocks of the methods it    *)
(* goes through, the load, the store and the second load of self.__seq in  *)
(* _next_seq, and the socket calls of send.                                *)

(* threading.Lock.acquire, the mutant of the lock: not re-entrant.         *)
Lock_acquire(owner, t) == owner = 0
(* No lock at all, the mutant of the serialization.                        *)
No_acquire(owner, t) == TRUE
(* threading.RLock.acquire goes through when the lock is free or owned by  *)
(* the caller.                                                             *)
RLock_acquire(owner, t) == owner \in {0, t}

(* build_basic_command: self._next_seq()                                   *)
build_chain == <<"acquire", "seq_load", "seq_store", "seq_return", "release">>
(* send: with self.__lock: sendall, recv                                   *)
send_chain == <<"acquire", "sendall", "recv", "release">>
(* send's except clause: self._connect(); return self.send(data, False)    *)
retry_chain ==
    <<"acquire", "connect", "release", "acquire", "sendall2", "recv2", "release">>
(* update_all_light_status, update_scene_list: with self.__lock: build,    *)
(* send                                                                    *)
refresh_chain == <<"acquire">> \o build_chain \o send_chain \o <<"release">>
(* update_group_list while no refresh of the lights has completed: inside  *)
(* its with block update_group_lights calls Group.update_status, whose     *)
(* self.__conn.lights() runs update_all_light_status                       *)
group_refresh_chain ==
    <<"acquire">> \o build_chain \o send_chain \o refresh_chain \o <<"release">>
(* a setter of Light, Scene.activate: build and send, in no with block     *)
setter_chain == build_chain \o send_chain
(* a setter of Group: build, send, and self.__conn.lights() for the member *)
(* lights, which refreshes the lights when no refresh has completed        *)
group_setter_chain == build_chain \o send_chain \o refresh_chain

Chains == {refresh_chain, group_refresh_chain, setter_chain, group_setter_chain}

(* The thread's next step is one of ins.                                   *)
At(t, ins) == thr[t].prog # <<>> /\ Head(thr[t].prog) \in ins

(* What is left of a chain after a socket.error in send: the first attempt *)
(* goes on with the except clause and then leaves send's with block; an    *)
(* error of the second attempt, or of the reconnect, is raised through     *)
(* every with block the thread is inside.                                  *)
chain_except(t) ==
    LET p == thr[t].prog
    IN  IF Head(p) = "sendall" THEN retry_chain \o SubSeq(p, 3, Len(p))
        ELSE IF Head(p) = "recv" THEN retry_chain \o Tail(p)
        ELSE [i \in 1..thr[t].depth |-> "release"]

(* A thread makes a public call.                                           *)
chain_call(t) ==
    /\ thr[t].prog = <<>>
    /\ seq < MaxSeqLock
    /\ \E p \in Chains : thr' = [thr EXCEPT ![t] = [Idle EXCEPT !.prog = p]]
    /\ UNCHANGED <<seq, lock, sock, ClientState>>

(* A thread calls a command builder.                                       *)
build_call(t) ==
    /\ thr[t].prog = <<>>
    /\ thr' = [thr EXCEPT ![t] = [Idle EXCEPT !.prog = build_chain]]
    /\ UNCHANGED <<seq, lock, sock, ClientState>>

(* with self.__lock: __enter__                                             *)
with_enter(t) ==
    /\ At(t, {"acquire"})
    /\ RLock_acquire(lock, t)
    /\ lock' = t
    /\ thr' = [thr EXCEPT ![t].prog = Tail(@), ![t].depth = @ + 1]
    /\ UNCHANGED <<seq, sock, ClientState>>

(* with self.__lock: __exit__, on a return or on an exception.  The call    *)
(* that has nothing left to do is over, and the thread is idle again.      *)
with_exit(t) ==
    /\ At(t, {"release"})
    /\ lock' = IF thr[t].depth = 1 THEN 0 ELSE lock
    /\ thr' = [thr EXCEPT ![t] = IF Len(@.prog) = 1 THEN Idle
                                 ELSE [@ EXCEPT !.prog = Tail(@), !.depth = @ - 1]]
    /\ UNCHANGED <<seq, sock, ClientState>>

(* _next_seq: self.__seq = (self.__seq + 1) % 256, the load                *)
next_seq_load(t) ==
    /\ At(t, {"seq_load"})
    /\ thr' = [thr EXCEPT ![t].prog = Tail(@), ![t].local = seq]
    /\ UNCHANGED <<seq, lock, sock, ClientState>>

(* _next_seq: self.__seq = (self.__seq + 1) % 256, the store               *)
next_seq_store(t) ==
    /\ At(t, {"seq_store"})
    /\ seq' = (thr[t].local + 1) % 256
    /\ thr' = [thr EXCEPT ![t].prog = Tail(@)]
    /\ UNCHANGED <<lock, sock, ClientState>>

(* _next_seq: return self.__seq; the number goes into the frame            *)
next_seq_return(t) ==
    /\ At(t, {"seq_return"})
    /\ thr' = [thr EXCEPT ![t].prog = Tail(@), ![t].frame = <<seq>>, ![t].local = 0]
    /\ issued' = Append(IF Len(issued) < 254 THEN issued ELSE Tail(issued), seq)
    /\ UNCHANGED <<seq, lock, sock, lights, lobj, groups, gobj, scenes, sobj,
                   lights_updated, lights_changed, groups_updated, scenes_updated,
                   lights_hash, now, call, ret, wrote, read, conns, refreshed>>

(* send: self.__sock.sendall(data)                                         *)
chain_sendall(t) ==
    /\ At(t, {"sendall", "sendall2"})
    /\ \/ /\ sock' = [sock EXCEPT !.inflight = Append(@, thr[t].frame)]
          /\ thr' = [thr EXCEPT ![t].prog = Tail(@)]
       \/ /\ thr' = [thr EXCEPT ![t].prog = chain_except(t)]
          /\ UNCHANGED sock
    /\ UNCHANGED <<seq, lock, ClientState>>

(* send: self.__sock.recv, to the end of the response.  send returns, and   *)
(* its argument data, the frame, is gone with it.                          *)
chain_recv(t) ==
    /\ At(t, {"recv", "recv2"})
    /\ sock.inbox # <<>>
    /\ sock' = [sock EXCEPT !.inbox = Tail(@)]
    /\ thr' = [thr EXCEPT ![t].prog = Tail(@), ![t].frame = <<>>]
    /\ UNCHANGED <<seq, lock, ClientState>>

(* send: self.__sock.recv raises socket.timeout                            *)
chain_timeout(t) ==
    /\ At(t, {"recv", "recv2"})
    /\ sock.inbox = <<>>
    /\ thr' = [thr EXCEPT ![t].prog = chain_except(t)]
    /\ UNCHANGED <<seq, lock, sock, ClientState>>

(* _connect: a new socket, connected or refused                            *)
chain_connect(t) ==
    /\ At(t, {"connect"})
    /\ sock' = NewSocket
    /\ \/ thr' = [thr EXCEPT ![t].prog = Tail(@)]
       \/ thr' = [thr EXCEPT ![t].prog = chain_except(t)]
    /\ UNCHANGED <<seq, lock, ClientState>>

(* A step of a thread inside a call.                                       *)
chain_step(t) ==
    \/ with_enter(t) \/ with_exit(t)
    \/ next_seq_load(t) \/ next_seq_store(t) \/ next_seq_return(t)
    \/ chain_sendall(t) \/ chain_recv(t) \/ chain_timeout(t) \/ chain_connect(t)

(* SpecLock: threads making public calls of every chain.  A thread that    *)
(* can take a step of its call takes it in the end, and so does the        *)
(* gateway.                                                                *)
NextLock ==
    \/ \E t \in Threads : chain_call(t)
    \/ \E t \in Threads : with_enter(t)
    \/ \E t \in Threads : with_exit(t)
    \/ \E t \in Threads : next_seq_load(t)
    \/ \E t \in Threads : next_seq_store(t)
    \/ \E t \in Threads : next_seq_return(t)
    \/ \E t \in Threads : chain_sendall(t)
    \/ \E t \in Threads : chain_recv(t)
    \/ \E t \in Threads : chain_timeout(t)
    \/ \E t \in Threads : chain_connect(t)
    \/ gateway_answer

SpecLock ==
    /\ Init /\ [][NextLock]_vars
    /\ \A t \in Threads : WF_vars(chain_step(t))
    /\ WF_vars(gateway_answer)

(* SpecSeq: threads calling the command builders, for as long as they      *)
(* like.                                                                   *)
NextSeq ==
    \/ \E t \in Threads : build_call(t)
    \/ \E t \in Threads : with_enter(t)
    \/ \E t \in Threads : with_exit(t)
    \/ \E t \in Threads : next_seq_load(t)
    \/ \E t \in Threads : next_seq_store(t)
    \/ \E t \in Threads : next_seq_return(t)

SpecSeq == Init /\ [][NextSeq]_vars

----------------------------------------------------------------------------
(* What the claims speak of.                                               *)

Range(q) == {q[i] : i \in DOMAIN q}
(* The addresses of a live light map, and the live object of an address.   *)
LiveAddrs(ls, os) == {os[ls[k]].addr : k \in DOMAIN ls}
LiveAt(ls, os, a) == CHOOSE o \in Range(ls) : os[o].addr = a
(* The step is a public call named op (the clock's steps are not calls).   *)
IsCall(op) == now' = now /\ call'.op = op
Empty == [exc |-> "none", val |-> <<>>]
(* A refresh of the lights that read response p and went on to parse it:   *)
(* the stored hash was not p's.                                            *)
ParsesLights(p) ==
    /\ IsCall("update_all_light_status")
    /\ read' = <<p>>
    /\ lights_hash # md5(p)
(* The cached attributes of light object l are those of status record r,   *)
(* for the features the light supports.                                    *)
Mirrors(l, r) ==
    /\ l.name = r.name
    /\ l.groups = GroupList(r.groups)
    /\ "on" \in l.supported_features => l.onoff = (r.onoff # 0)
    /\ "lum" \in l.supported_features => l.lum = r.lum
    /\ "temp" \in l.supported_features => l.temp = r.temp
    /\ "rgb" \in l.supported_features =>
           <<l.red, l.green, l.blue>> = <<r.red, r.green, r.blue>>

(* C1: when the live light map holds the addresses {a, b} and a refresh    *)
(* parses a whole response that lists exactly {b, c}, the call returns     *)
(* with a's object marked deleted and out of the map, b's object still in  *)
(* the map with the attributes of its record, and a new object for c in    *)
(* the map.                                                                *)
C1_Step ==
    \A p \in LightResponses : \A a, b, c \in Addrs :
        ( /\ a # b /\ c \notin {a, b}
          /\ LiveAddrs(lights, lobj) = {a, b}
          /\ ParsesLights(p)
          /\ p.num = Len(p.recs)
          /\ {p.recs[i].addr : i \in DOMAIN p.recs} = {b, c} )
        => /\ ret'.exc = "none"
           /\ lobj'[LiveAt(lights, lobj, a)].deleted
           /\ LiveAt(lights, lobj, a) \notin Range(lights')
           /\ LiveAt(lights, lobj, b) \in Range(lights')
           /\ \E i \in DOMAIN p.recs :
                  p.recs[i].addr = b /\ Mirrors(lobj'[LiveAt(lights, lobj, b)], p.recs[i])
           /\ \E o \in Range(lights') : o \notin DOMAIN lobj /\ lobj'[o].addr = c
C1_DiffReconciliation == [][C1_Step]_vars

(* C2: of two consecutive refreshes of the lights that read the same       *)
(* response, the second changes the lights_updated timestamp and nothing   *)
(* else of the mirrored state, and returns an empty result.                *)
C2_Step ==
    ( /\ call.op = "update_all_light_status" /\ read # <<>>
      /\ IsCall("update_all_light_status") /\ read' = read )
    => /\ ret' = Empty
       /\ lights_updated' = now'
       /\ UNCHANGED <<lights, lobj, lights_changed, lights_hash, groups, gobj,
                      scenes, sobj, groups_updated, scenes_updated>>
C2_HashShortCircuit == [][C2_Step]_vars

(* A refresh short-circuited by the hash after the clock advanced: the     *)
(* lights are as the earlier parse left them, lights_updated is later than *)
(* lights_changed.                                                         *)
C2_Witness ==
    /\ call.op = "update_all_light_status" /\ read # <<>>
    /\ lights_hash = md5(read[1])
    /\ lights # <<>>
    /\ lights_updated = now /\ lights_changed < lights_updated

(* C5: when a record of the response fails to unpack, the refresh returns  *)
(* an empty result and leaves the live map, every Light object, the stored *)
(* hash and the two timestamps as they were.                               *)
C5_Step ==
    \A p \in LightResponses :
        (ParsesLights(p) /\ p.num > Len(p.recs))
        => /\ ret' = Empty
           /\ UNCHANGED <<lights, lobj, lights_hash, lights_updated, lights_changed>>
C5_MalformedLeavesState == [][C5_Step]_vars

(* The feature a setter of a light needs.                                  *)
SetterFeature ==
    [op \in {"Light.set_onoff", "Light.set_luminance", "Light.set_temperature",
             "Light.set_rgb"} |->
        CASE op = "Light.set_onoff" -> "on"
          [] op = "Light.set_luminance" -> "lum"
          [] op = "Light.set_temperature" -> "temp"
          [] op = "Light.set_rgb" -> "rgb"]
IsSetterCall == now' = now /\ call'.op \in DOMAIN SetterFeature
Sensors == {"CONTACT_SENSOR", "MOTION_SENSOR", "SWITCH"}

(* C6: whatever updates and setter calls a Light object has seen, each     *)
(* attribute outside its feature set has the value the constructor gave    *)
(* it: off; luminance, temperature and colour 0 for sensors and switches,  *)
(* MAX_LUMINANCE, DEFAULT_TEMPERATURE and full white for the others.       *)
C6_FeatureSetInvariant ==
    \A o \in DOMAIN lobj :
        LET l == lobj[o]
            f == l.supported_features
            sensor == l.devicesubtype \in Sensors
        IN  /\ "on" \notin f => l.onoff = FALSE
            /\ "lum" \notin f => l.lum = IF sensor THEN 0 ELSE MAX_LUMINANCE
            /\ "temp" \notin f => l.temp = IF sensor THEN 0 ELSE DEFAULT_TEMPERATURE
            /\ "rgb" \notin f =>
                   <<l.red, l.green, l.blue>> =
                       IF sensor THEN <<0, 0, 0>>
                       ELSE <<MAX_COLOUR, MAX_COLOUR, MAX_COLOUR>>

(* A plug (on/off only) whose status record carried luminance 80 and was   *)
(* then asked to set a luminance: it still has the default luminance.      *)
C6_Witness ==
    /\ call.op = "Light.set_luminance"
    /\ lobj[call.light].supported_features = {"on"}
    /\ lobj[call.light].onoff
    /\ lobj[call.light].name = LightNames[1]
    /\ lobj[call.light].lum = MAX_LUMINANCE

(* C7: a setter called on a light that is deleted or lacks the feature     *)
(* returns normally, builds no frame, consumes no sequence number, writes  *)
(* nothing, and changes no attribute, lights_changed or the stored hash.   *)
C7_Step ==
    ( /\ IsSetterCall
      /\ call'.light \in DOMAIN lobj
      /\ \/ lobj[call'.light].deleted
         \/ SetterFeature[call'.op] \notin lobj[call'.light].supported_features )
    => /\ ret' = Empty
       /\ wrote' = <<>> /\ conns' = 0
       /\ UNCHANGED <<seq, lobj, lights, lights_changed, lights_hash, lights_updated>>
C7_SetterNoOp == [][C7_Step]_vars

(* A setter was called on a deleted light that has the feature, after the  *)
(* light had been switched with a frame: nothing was written.              *)
C7_Witness ==
    /\ call.op = "Light.set_onoff"
    /\ lobj[call.light].deleted
    /\ "on" \in lobj[call.light].supported_features
    /\ wrote = <<>> /\ seq > 0

(* C4: in a send that may reconnect and whose first attempt ends in a      *)
(* transport error there is exactly one reconnect; when the reconnect      *)
(* succeeds the same frame is written exactly once more, and an error of   *)
(* that second attempt is raised; when the reconnect fails its error is    *)
(* raised and nothing is resent.  No send writes more than twice or        *)
(* reconnects more than once.                                              *)
C4_Step ==
    IsCall("send") =>
        /\ Len(wrote') <= 2 /\ conns' <= 1
        /\ (call'.reconnect /\ Head(call'.io.try) = "err") =>
               /\ conns' = 1
               /\ call'.io.conn = "ok" =>
                      /\ wrote' = <<call'.data, call'.data>>
                      /\ call'.io.try[2] = "err" =>
                             ret'.exc = "socket.error" /\ read' = <<>>
                      /\ call'.io.try[2] = "ok" =>
                             /\ ret' = [exc |-> "none", val |-> call'.io.resp]
                             /\ read' = <<call'.io.resp>>
               /\ call'.io.conn = "err" =>
                      wrote' = <<call'.data>> /\ ret'.exc = "socket.error"
C4_ReconnectOnce == [][C4_Step]_vars

(* C4 as stated: the failed first attempt is always followed by one        *)
(* reconnect and one resend of the same frame.                             *)
C4_AsStated_Step ==
    (IsCall("send") /\ call'.reconnect /\ Head(call'.io.try) = "err") =>
        /\ conns' = 1
        /\ wrote' = <<call'.data, call'.data>>
        /\ ret'.exc = "none" \/ call'.io.try[2] = "err"
C4_AsStated == [][C4_AsStated_Step]_vars

(* A send whose two attempts both failed: one reconnect, the frame written *)
(* twice, the error raised.                                                *)
C4_Witness ==
    /\ call.op = "send" /\ call.reconnect
    /\ call.io.try = <<"err", "err">> /\ call.io.conn = "ok"
    /\ wrote = <<call.data, call.data>>
    /\ conns = 1
    /\ ret.exc = "socket.error"

RefreshOps == {"update_all_light_status", "update_group_list", "update_scene_list"}
(* The timestamp a refresh sets when it completes.                         *)
UpdatedOf(op) ==
    CASE op = "update_all_light_status" -> lights_updated
      [] op = "update_group_list" -> groups_updated
      [] op = "update_scene_list" -> scenes_updated
(* The step is the second of two consecutive calls of refresh op with the  *)
(* same throttling interval T > 0, starting less than T after the first.   *)
SecondWithin(op) ==
    /\ call.op = op /\ call.interval > 0
    /\ IsCall(op) /\ call'.interval = call.interval
    /\ call'.at < call.at + call.interval

(* C3: when a refresh called with a throttling interval T > 0 made its     *)
(* round trip and completed (it set its timestamp), a second call of the   *)
(* same refresh with T that starts less than T later returns an empty      *)
(* result without touching the socket: one round trip in total.            *)
C3_Step ==
    \A op \in RefreshOps :
        ( /\ SecondWithin(op)
          /\ Len(read) = 1 /\ ret.exc = "none" /\ UpdatedOf(op) = call.at )
        => /\ ret' = Empty
           /\ wrote' = <<>> /\ read' = <<>> /\ conns' = 0
           /\ seq' = seq
C3_Throttle == [][C3_Step]_vars

(* C3 as stated: whatever became of the first call, the two calls make     *)
(* exactly one round trip and the second touches no socket.                *)
C3_AsStated_Step ==
    \A op \in RefreshOps :
        SecondWithin(op)
        => /\ Len(read) + Len(read') = 1
           /\ ret' = Empty
           /\ wrote' = <<>> /\ conns' = 0
C3_AsStated == [][C3_AsStated_Step]_vars

(* A refresh of the groups was throttled: it was called a second after     *)
(* the refresh that set groups_updated, inside the interval, and wrote     *)
(* nothing.                                                                *)
C3_Witness ==
    /\ call.op = "update_group_list" /\ call.interval > 0
    /\ groups_updated # 0
    /\ call.at > groups_updated
    /\ call.at < groups_updated + call.interval
    /\ wrote = <<>> /\ ret = Empty

(* The request a frame carries is its fourth byte.                         *)
Requests1(frames, command) == frames # <<>> /\ frames[1][4] = command
(* What an accessor has to load first: the first class, in the order       *)
(* lights, scenes, groups, of those it serves that no refresh completed.   *)
C8_Due(classes, done) ==
    IF "lights" \in classes \ done THEN COMMAND_ALL_LIGHT_STATUS
    ELSE IF "scenes" \in classes \ done THEN COMMAND_SCENE_LIST
    ELSE IF "groups" \in classes \ done THEN COMMAND_GROUP_LIST
    ELSE 0
C8_Serves ==
    [op \in {"lights", "light_byname", "scenes", "groups"} |->
        CASE op = "scenes" -> {"scenes"}
          [] op = "groups" -> {"lights", "scenes", "groups"}
          [] OTHER -> {"lights"}]

(* C8: an accessor sends the refresh request of each class it serves that  *)
(* no refresh has completed for (the first such class first), and does no  *)
(* socket I/O when a refresh of every class it serves has completed.       *)
C8_Step ==
    \A op \in DOMAIN C8_Serves :
        IsCall(op) =>
            IF C8_Due(C8_Serves[op], refreshed) # 0
            THEN Requests1(wrote', C8_Due(C8_Serves[op], refreshed))
            ELSE wrote' = <<>> /\ read' = <<>> /\ conns' = 0
C8_LazyLoad == [][C8_Step]_vars

(* C9: after every step no object of a live map is marked deleted; an      *)
(* object marked deleted stays so and stays out of its map; an object that *)
(* enters a live map was created in that step.                             *)
C9_Final(ids, objs) ==
    /\ \A o \in Range(ids') : ~objs'[o].deleted
    /\ \A o \in DOMAIN objs : objs[o].deleted => objs'[o].deleted /\ o \notin Range(ids')
    /\ \A o \in Range(ids') \ Range(ids) : o \notin DOMAIN objs
C9_Step ==
    /\ C9_Final(lights, lobj)
    /\ C9_Final(groups, gobj)
    /\ C9_Final(scenes, sobj)
C9_TombstonesFinal == [][C9_Step]_vars

(* The address of a deleted Light is live again, with another object.      *)
C9_Witness ==
    \E d \in DOMAIN lobj : \E o \in Range(lights) :
        /\ lobj[d].deleted
        /\ lobj[o].addr = lobj[d].addr
        /\ o # d /\ ~lobj[o].deleted

(* The threads that are between the start of their write and the end of   *)
(* their exchange.                                                         *)
InExchange == {t \in Threads : thr[t].pc \in {"sendall", "recv", "connect"}}
(* Only the owner of the lock is in an exchange, and only a step of the    *)
(* owner (or the gateway's answer) changes what is on the connection.      *)
MutualExclusion == \A t \in InExchange : lock = t
OwnerOnly ==
    sock' # sock =>
        \/ lock # 0 /\ thr'[lock] # thr[lock] /\ \A u \in Threads \ {lock} : thr'[u] = thr[u]
        \/ thr' = thr
(* What send returned to a thread answers the frame the thread sent.       *)
OwnResponse == \A t \in Threads : thr[t].pc = "done" => thr[t].got = [to |-> thr[t].frame]

(* C10: only one thread at a time is between the start of its write and    *)
(* the end of its exchange, no other thread touches the socket meanwhile,  *)
(* and every thread that send returns to has the response to its own       *)
(* frame.                                                                  *)
C10_Step == MutualExclusion' /\ OwnerOnly /\ OwnResponse'
C10_ExclusiveExchanges == [][C10_Step]_vars

(* The part of C10 that holds: exclusion alone.                            *)
C10_ExclusionOnly == [][MutualExclusion' /\ OwnerOnly]_vars

(* C11: a thread that comes to an acquisition of the lock while it is      *)
(* inside a with block of it goes through, and every call a thread starts  *)
(* comes to its end (it returns or raises, and has left every with block). *)
NestedGoesThrough ==
    \A t \in Threads : (thr[t].depth > 0 /\ At(t, {"acquire"})) => RLock_acquire(lock, t)
C11_NoDeadlock ==
    /\ []NestedGoesThrough
    /\ \A t \in Threads : (thr[t].prog # <<>>) ~> (thr[t].prog = <<>>)

(* A thread is inside four with blocks (the refresh of the groups, the     *)
(* refresh of the lights it triggered, that refresh's send and its         *)
(* reconnect) while another thread waits for the lock.                     *)
C11_Witness ==
    \E t, u \in Threads :
        /\ thr[t].depth = 4 /\ At(t, {"connect"})
        /\ thr[u].depth = 0 /\ At(u, {"acquire"})

(* C13: the store of _next_seq advances the counter by one; the number a   *)
(* call returns is the successor (modulo 256) of the number returned last, *)
(* and none of the 254 numbers returned before it.                         *)
C13_Step ==
    \A t \in Threads :
        /\ (At(t, {"seq_store"}) /\ thr'[t].prog = Tail(thr[t].prog))
           => seq' = (seq + 1) % 256
        /\ (At(t, {"seq_return"}) /\ thr'[t].prog = Tail(thr[t].prog))
           => /\ thr'[t].frame = <<issued'[Len(issued')]>>
              /\ issued'[Len(issued')] \notin Range(issued)
              /\ issued'[Len(issued')] =
                     IF issued = <<>> THEN 1 ELSE (issued[Len(issued)] + 1) % 256
C13_ConcurrentSequence == [][C13_Step]_vars

(* The counter has gone all the way round, and one thread is between the   *)
(* load and the store while another waits for the lock.                    *)
C13_Witness ==
    \E t, u \in Threads :
        /\ At(t, {"seq_store"})
        /\ thr[u].depth = 0 /\ At(u, {"acquire"})
        /\ Len(issued) = 254 /\ 0 \in Range(issued) /\ seq < 254

(* C12: a call of _next_seq returns the successor of the counter, and 1    *)
(* after 255: a number of 1..255, never 0.                                 *)
C12_Step ==
    IsCall("_next_seq") =>
        /\ ret'.val \in 1..255
        /\ ret'.val = IF seq = 255 THEN 1 ELSE seq + 1
C12_SequenceCycle == [][C12_Step]_vars

(* The flag and the address field a builder call is to put in its frame.   *)
C19_Flag == IF call'.op = "build_light_command" THEN FLAG_LIGHT ELSE FLAG_GLOBAL
C19_AddrLen == IF call'.op = "build_global_command" THEN 0 ELSE 8

(* C19: a frame a builder returns starts with the little-endian length     *)
(* 6 + len(address field) + len(payload), which is the number of bytes     *)
(* after the length field; then come flag, opcode, 0, 0, 0x07 and the      *)
(* sequence number just generated; then the address field (none for a      *)
(* global command, the 8 bytes of the index or of the address otherwise)   *)
(* and the payload.                                                        *)
C19_Step ==
    ( /\ now' = now
      /\ call'.op \in {"build_global_command", "build_command", "build_light_command"}
      /\ ret'.exc = "none" )
    => LET f == ret'.val
       IN  /\ LEValue(SubSeq(f, 1, 2)) = 6 + C19_AddrLen + Len(call'.data)
           /\ LEValue(SubSeq(f, 1, 2)) = Len(f) - 2
           /\ SubSeq(f, 3, 8) = <<C19_Flag, call'.command, 0, 0, 7, seq'>>
           /\ call'.op = "build_command" =>
                  SubSeq(f, 9, 16) = <<call'.idx, 0, 0, 0, 0, 0, 0, 0>>
           /\ call'.op = "build_light_command" =>
                  LEValue(SubSeq(f, 9, 16)) = call'.addr
           /\ SubSeq(f, 9 + C19_AddrLen, Len(f)) = call'.data
C19_FrameLength == [][C19_Step]_vars

(* A light command with a payload of MaxPayload bytes was built after the  *)
(* counter had gone round: a frame of 16 + MaxPayload bytes.               *)
C19_Witness ==
    /\ call.op = "build_light_command" /\ ret.exc = "none"
    /\ Len(call.data) = MaxPayload
    /\ Len(ret.val) = 16 + MaxPayload
    /\ ret.val[8] = 0

(* The step is a call of setter op on a light that is not deleted and has  *)
(* the setter's feature.                                                   *)
SetsLive(op) ==
    /\ IsCall(op)
    /\ ~lobj[call'.light].deleted
    /\ SetterFeature[op] \in lobj[call'.light].supported_features

(* C14: on a light that is not deleted and supports luminance,             *)
(* set_luminance(0) leaves the light off; set_luminance(v) with v > 0,     *)
(* also when the light was off, leaves it on with the luminance            *)
(* min(v, MAX_LUMINANCE).                                                  *)
C14_Step ==
    SetsLive("Light.set_luminance") =>
        /\ call'.lum = 0 => ~lobj'[call'.light].onoff
        /\ call'.lum > 0 =>
               /\ lobj'[call'.light].onoff
               /\ lobj'[call'.light].lum = Min(call'.lum, MAX_LUMINANCE)
C14_LuminanceCoupling == [][C14_Step]_vars

(* set_luminance(150) on a light its status record reported unreachable    *)
(* and off: the light is on, with luminance MAX_LUMINANCE.                 *)
C14_Witness ==
    /\ call.op = "Light.set_luminance" /\ call.lum = 150
    /\ ~lobj[call.light].deleted
    /\ ~lobj[call.light].reachable
    /\ lobj[call.light].onoff
    /\ lobj[call.light].lum = MAX_LUMINANCE

(* C15: after set_luminance, whatever the integer given, the luminance     *)
(* the light has stored lies in 0..MAX_LUMINANCE, and so does the          *)
(* luminance byte of every frame the call wrote.                           *)
C15_Step ==
    SetsLive("Light.set_luminance") =>
        /\ lobj'[call'.light].lum \in 0..MAX_LUMINANCE
        /\ \A i \in DOMAIN wrote' : wrote'[i][17] \in 0..MAX_LUMINANCE
C15_LuminanceRange == [][C15_Step]_vars

(* The temperature range of a light: that of its type's entry in the       *)
(* capability table where the entry has one, that of its subtype           *)
(* otherwise.                                                              *)
OwnMinTemp(l) ==
    IF l.type_id \in DOMAIN device_types /\ "min_temp" \in DOMAIN device_types[l.type_id]
    THEN device_types[l.type_id].min_temp
    ELSE IF l.devicesubtype = "LIGHT_TUNABLE_WHITE" THEN MIN_TEMPERATURE_TUNABLE_WHITE
    ELSE MIN_TEMPERATURE_RGB
OwnMaxTemp(l) ==
    IF l.type_id \in DOMAIN device_types /\ "max_temp" \in DOMAIN device_types[l.type_id]
    THEN device_types[l.type_id].max_temp
    ELSE IF l.devicesubtype = "LIGHT_TUNABLE_WHITE" THEN MAX_TEMPERATURE_TUNABLE_WHITE
    ELSE MAX_TEMPERATURE_RGB

(* C16: on a light that is not deleted and supports temperature,           *)
(* set_temperature(t) stores max(min_temp, min(t, max_temp)) for the       *)
(* light's own range, and that is the temperature of every frame the call  *)
(* writes; it writes one.                                                  *)
C16_Step ==
    SetsLive("Light.set_temperature") =>
        LET l == lobj[call'.light]
            temp == Max(OwnMinTemp(l), Min(call'.temp, OwnMaxTemp(l)))
        IN  /\ lobj'[call'.light].temp = temp
            /\ wrote' # <<>>
            /\ \A i \in DOMAIN wrote' : LEValue(SubSeq(wrote'[i], 17, 18)) = temp
C16_TemperatureClamp == [][C16_Step]_vars

(* set_temperature(9000) on the light of the added type, whose range ends  *)
(* at 4000 where the range of the constants ends at 6500.                  *)
C16_Witness ==
    /\ call.op = "Light.set_temperature" /\ call.temp = 9000
    /\ ~lobj[call.light].deleted
    /\ lobj[call.light].type_id = 128
    /\ lobj[call.light].temp = 4000
    /\ wrote # <<>>

(* C17: a light whose status record carries the group bitmask 0x8000       *)
(* (bit 15 alone) is left with the group list [1], and one whose record    *)
(* carries bits 15 and 0 with the groups 1 and 16.                         *)
C17_Step ==
    \A p \in LightResponses :
        (ParsesLights(p) /\ p.num = Len(p.recs))
        => \A i \in DOMAIN p.recs : \A o \in Range(lights') :
               lobj'[o].addr = p.recs[i].addr
               => /\ p.recs[i].groups = 32768 => lobj'[o].groups = <<1>>
                  /\ p.recs[i].groups = 32769 => Range(lobj'[o].groups) = {1, 16}
C17_GroupBitmask == [][C17_Step]_vars

(* The first refresh of a new client reads the response that describes one *)
(* light: an RGB light at address 1, reachable, on, with luminance 80,     *)
(* temperature 4000, colour (10, 20, 30) and the group bitmask 0x8000.     *)
FirstRefreshOfOne ==
    /\ call.op = "__init__"
    /\ IsCall("update_all_light_status")
    /\ read' = <<[num |-> 1, recs |-> <<StatusRecord(1, 1)>>]>>

(* C18: that refresh leaves exactly one Light in the live map, on, with    *)
(* luminance 80 and the group list [1].                                    *)
C18_Step ==
    FirstRefreshOfOne =>
        /\ Len(lights') = 1
        /\ lobj'[lights'[1]].onoff
        /\ lobj'[lights'[1]].lum = 80
        /\ lobj'[lights'[1]].groups = <<1>>
C18_EndToEndParse == [][C18_Step]_vars

(* The part of C18 that holds: one Light, on, with luminance 80; its group *)
(* list is [16].                                                           *)
C18_AsParsed ==
    [][FirstRefreshOfOne =>
           /\ ret'.exc = "none"
           /\ Len(lights') = 1
           /\ lobj'[lights'[1]].onoff
           /\ lobj'[lights'[1]].lum = 80
           /\ lobj'[lights'[1]].groups = <<16>>]_vars

(* The length the prefix of the stream announces.                          *)
Announced == LEValue(SubSeq(call.stream, 1, 2))

(* The read that ends thread t's send left it with the announced bytes,    *)
(* and the connection with what follows them.                              *)
ReturnsAnnounced(t) ==
    (thr[t].pc # "done" /\ thr'[t].pc = "done")
    => /\ thr'[t].got = SubSeq(call.stream, 3, 2 + Announced)
       /\ sock'.inbox = SubSeq(call.stream, 3 + Announced, Len(call.stream))

(* C20: however the stream is split across the reads, send returns, with   *)
(* exactly the bytes the prefix announces, having taken the prefix and     *)
(* those bytes from the stream and nothing more.                           *)
C20_Step == \A t \in Threads : thr'[t].pc # "failed" /\ ReturnsAnnounced(t)
C20_ResponseFraming == [][C20_Step]_vars

(* The part of C20 that holds: a send that returns has read exactly the    *)
(* announced bytes, however they were split.                               *)
C20_WhenPrefixWhole == [][\A t \in Threads : ReturnsAnnounced(t)]_vars

(* The command of each setter of Group, and the feature it is about.       *)
GroupSetterCommand ==
    [op \in {"Group.set_onoff", "Group.set_luminance", "Group.set_temperature",
             "Group.set_rgb"} |->
        CASE op = "Group.set_onoff" -> COMMAND_ONOFF
          [] op = "Group.set_luminance" -> COMMAND_LUMINANCE
          [] op = "Group.set_temperature" -> COMMAND_TEMP
          [] op = "Group.set_rgb" -> COMMAND_COLOUR]
GroupSetterFeature ==
    [op \in DOMAIN GroupSetterCommand |->
        CASE op = "Group.set_onoff" -> "on"
          [] op = "Group.set_luminance" -> "lum"
          [] op = "Group.set_temperature" -> "temp"
          [] op = "Group.set_rgb" -> "rgb"]
(* The step is a call of a setter of a Group that is not deleted.          *)
IsGroupSetterCall ==
    /\ now' = now
    /\ call'.op \in DOMAIN GroupSetterCommand
    /\ ~gobj[call'.group].deleted
(* The call built one frame and wrote it (once, or once more after the     *)
(* reconnect): the setter's command, addressed to the group's index.       *)
OneGroupFrame ==
    /\ seq' = (seq + 1) % 256
    /\ wrote' # <<>>
    /\ \A i \in DOMAIN wrote' :
           /\ wrote'[i] = wrote'[1]
           /\ SubSeq(wrote'[i], 3, 4) = <<FLAG_GLOBAL, GroupSetterCommand[call'.op]>>
           /\ wrote'[i][8] = seq'
           /\ SubSeq(wrote'[i], 9, 16) = <<gobj[call'.group].idx, 0, 0, 0, 0, 0, 0, 0>>

(* C21: a setter called on a Group that is not deleted builds and writes   *)
(* exactly one frame, the setter's command addressed to the group's index, *)
(* and no frame addressed to a light, however many lights the group has.   *)
C21_Step == IsGroupSetterCall => OneGroupFrame
C21_GroupBroadcast == [][C21_Step]_vars

(* The part of C21 that holds: one frame to the group whenever the         *)
(* luminance given is not negative.                                        *)
C21_WhenNotNegative ==
    [][(IsGroupSetterCall /\ ~(call'.op = "Group.set_luminance" /\ call'.lum < 0))
           => OneGroupFrame]_vars

(* The live Light objects, before the step, of the addresses in the member *)
(* list of the group the step's call is about.                             *)
CurrentMembers ==
    {o \in Range(lights) : InSeq(lobj[o].addr, gobj[call'.group].lights)}
(* The step is a call of setter op of a Group that is not deleted, and the *)
(* call returned.                                                          *)
GroupSetterReturned(op) ==
    /\ IsGroupSetterCall
    /\ call'.op = op
    /\ ret'.exc = "none"
(* The value the frame of the step's call carries: the bytes after the     *)
(* address field.                                                          *)
FrameTemp == LEValue(SubSeq(wrote'[1], 17, 18))
FrameLum == wrote'[1][17]
FrameRgb == SubSeq(wrote'[1], 17, 19)

(* C22 as stated: after a setter of a Group every current member light     *)
(* that supports the feature has the value the group's frame carries.      *)
C22_AsStated_Step ==
    (IsGroupSetterCall /\ ret'.exc = "none") =>
        \A o \in CurrentMembers :
            /\ (GroupSetterReturned("Group.set_temperature")
                /\ "temp" \in lobj[o].supported_features)
               => lobj'[o].temp = FrameTemp
            /\ (GroupSetterReturned("Group.set_luminance")
                /\ "lum" \in lobj[o].supported_features)
               => lobj'[o].lum = FrameLum
            /\ (GroupSetterReturned("Group.set_rgb")
                /\ "rgb" \in lobj[o].supported_features)
               => <<lobj'[o].red, lobj'[o].green, lobj'[o].blue>> = FrameRgb
C22_AsStated == [][C22_AsStated_Step]_vars

(* C22: after a setter of a Group that is not deleted returned, every      *)
(* current member light that supports the feature has what its own setter  *)
(* makes of the value the group's frame carries: the temperature clamped   *)
(* to the light's own range, the luminance (DEFAULT_LUMINANCE for 0), the  *)
(* colour.                                                                 *)
C22_Step ==
    (IsGroupSetterCall /\ ret'.exc = "none") =>
        \A o \in CurrentMembers :
            /\ (GroupSetterReturned("Group.set_temperature")
                /\ "temp" \in lobj[o].supported_features)
               => lobj'[o].temp =
                      Max(lobj[o].min_temp, Min(FrameTemp, lobj[o].max_temp))
            /\ (GroupSetterReturned("Group.set_luminance")
                /\ "lum" \in lobj[o].supported_features)
               => lobj'[o].lum =
                      IF FrameLum = 0 THEN DEFAULT_LUMINANCE ELSE FrameLum
            /\ (GroupSetterReturned("Group.set_rgb")
                /\ "rgb" \in lobj[o].supported_features)
               => <<lobj'[o].red, lobj'[o].green, lobj'[o].blue>> = FrameRgb
C22_GroupPropagation == [][C22_Step]_vars

(* Group.set_temperature(1000) returned on a group of an RGB light and a   *)
(* tunable white light: the frame carried 1900, the lower end of the       *)
(* group's range, the RGB light has 1900 and the tunable white light the   *)
(* lower end of its own range.                                             *)
C22_Witness ==
    /\ call.op = "Group.set_temperature" /\ call.temp = 1000
    /\ ret.exc = "none"
    /\ ~gobj[call.group].deleted
    /\ LEValue(SubSeq(wrote[1], 17, 18)) = MIN_TEMPERATURE_RGB
    /\ \E o, p \in Range(lights) :
           /\ InSeq(lobj[o].addr, gobj[call.group].lights)
           /\ InSeq(lobj[p].addr, gobj[call.group].lights)
           /\ lobj[o].temp = MIN_TEMPERATURE_RGB
           /\ lobj[p].temp = MIN_TEMPERATURE_TUNABLE_WHITE

(* The step is a call of a setter of a Group that is not deleted and whose *)
(* derived feature set lacks the setter's feature.                         *)
GroupLacksFeature ==
    /\ IsGroupSetterCall
    /\ GroupSetterFeature[call'.op] \notin gobj[call'.group].supported_features

(* C23: a setter called on a Group whose derived feature set lacks the     *)
(* setter's feature (a group without members has no feature) returns       *)
(* without an error, builds and sends no frame and changes no light.       *)
C23_Step ==
    GroupLacksFeature =>
        /\ ret'.exc = "none"
        /\ wrote' = <<>> /\ seq' = seq
        /\ lobj' = lobj
C23_GroupNoOp == [][C23_Step]_vars

(* The part of C23 that holds: no light is changed.                        *)
C23_NoLightChanged == [][GroupLacksFeature => lobj' = lobj]_vars

(* What Scene.activate writes: one frame, the activate-scene command with  *)
(* the scene's index in the address field and no payload; a reconnect      *)
(* writes the same frame again.                                            *)
OneSceneFrame ==
    /\ seq' = (seq + 1) % 256
    /\ wrote' # <<>>
    /\ \A i \in DOMAIN wrote' :
           /\ wrote'[i] = wrote'[1]
           /\ Len(wrote'[i]) = 16
           /\ SubSeq(wrote'[i], 3, 4) = <<FLAG_GLOBAL, COMMAND_ACTIVATE_SCENE>>
           /\ wrote'[i][8] = seq'
           /\ SubSeq(wrote'[i], 9, 16) = <<sobj[call'.scene].idx, 0, 0, 0, 0, 0, 0, 0>>

(* C24: Scene.activate on a scene that is not deleted writes one           *)
(* activate-scene frame addressed by the scene's index and changes no      *)
(* Light, no Group, no Scene and no live map; on a scene marked deleted it *)
(* writes nothing and leaves the whole state of the client as it was.      *)
C24_Step ==
    IsCall("Scene.activate") =>
        IF sobj[call'.scene].deleted
        THEN /\ wrote' = <<>> /\ read' = <<>> /\ conns' = 0
             /\ ret' = Empty
             /\ UNCHANGED <<seq, lights, lobj, groups, gobj, scenes, sobj,
                            lights_updated, lights_changed, groups_updated,
                            scenes_updated, lights_hash, refreshed>>
        ELSE /\ OneSceneFrame
             /\ UNCHANGED <<lights, lobj, groups, gobj, scenes, sobj>>
C24_SceneActivate == [][C24_Step]_vars

(* Scene.activate was called on a scene that a refresh marked deleted,     *)
(* while lights and other scenes are cached.                               *)
C24_Witness ==
    /\ call.op = "Scene.activate"
    /\ sobj[call.scene].deleted
    /\ wrote = <<>>
    /\ scenes # <<>>

(* Scene.activate wrote its frame for a live scene while lights are        *)
(* cached.                                                                 *)
C24_WitnessSent ==
    /\ call.op = "Scene.activate"
    /\ ~sobj[call.scene].deleted
    /\ wrote # <<>>
    /\ lights # <<>>

(* Group g is derived from the live lights ls (objects os): its member     *)
(* list holds the addresses of the live lights whose group list contains   *)
(* its index, in the order of the lights' indexes, and its features and    *)
(* its temperature range are the union, the minimum and the maximum over   *)
(* those lights.                                                           *)
GroupDerived(g, ls, os) ==
    LET mem == {o \in Range(ls) : InSeq(g.idx, os[o].groups)}
    IN  /\ Len(g.lights) = Cardinality(mem)
        /\ Range(g.lights) = {os[o].addr : o \in mem}
        /\ \A i, j \in DOMAIN g.lights :
               i < j => os[LiveAt(ls, os, g.lights[i])].idx
                            <= os[LiveAt(ls, os, g.lights[j])].idx
        /\ g.supported_features = UNION {os[o].supported_features : o \in mem}
        /\ mem # {} =>
               /\ g.min_temp = SetMin({Light_min_temp(os[o]) : o \in mem})
               /\ g.max_temp = SetMax({Light_max_temp(os[o]) : o \in mem})

(* The step is an update_all_light_status that read a response, parsed it  *)
(* (the stored hash was not the response's) and returned.                  *)
ReparsedLights ==
    /\ IsCall("update_all_light_status")
    /\ Len(read') = 1
    /\ lights_hash # md5(read'[1])
    /\ ret'.exc = "none"

(* C25: after an update_all_light_status that parsed a response, every     *)
(* live Group's member list, feature set and temperature range are those   *)
(* derived from the live lights.                                           *)
C25_Step ==
    ReparsedLights => \A k \in DOMAIN groups' : GroupDerived(gobj'[groups'[k]], lights', lobj')
C25_GroupsFollowLights == [][C25_Step]_vars

(* What holds: an update_group_list that returned leaves every live Group  *)
(* derived from the live lights.                                           *)
C25_AfterGroupList ==
    [][(IsCall("update_group_list") /\ ret'.exc = "none" /\ read' # <<>>) =>
           \A k \in DOMAIN groups' : GroupDerived(gobj'[groups'[k]], lights', lobj')]_vars

(* C26: a call of a Group setter, whatever it sends and however it ends,   *)
(* leaves every Group object and the live group map as they were: the      *)
(* member list, the scene list, the feature set and the temperature range  *)
(* are still those the last group refresh stored.                          *)
C26_Step ==
    (now' = now /\ call'.op \in DOMAIN GroupSetterCommand) =>
        /\ gobj' = gobj
        /\ groups' = groups
C26_GroupStateKept == [][C26_Step]_vars

(* Group.set_rgb(1, 2, 3) returned on a group of two lights, and a member  *)
(* light has the colour.                                                   *)
C26_Witness ==
    /\ call.op = "Group.set_rgb" /\ call.rgb = <<1, 2, 3>>
    /\ ret.exc = "none"
    /\ Len(gobj[call.group].lights) = 2
    /\ "rgb" \in gobj[call.group].supported_features
    /\ \E o \in Range(lights) :
           /\ InSeq(lobj[o].addr, gobj[call.group].lights)
           /\ <<lobj[o].red, lobj[o].green, lobj[o].blue>> = <<1, 2, 3>>

(* The step is an update_group_list that read the group list p.            *)
ParsesGroups(p) ==
    /\ IsCall("update_group_list")
    /\ read' = <<p>>
(* Group object g has the name and the index of a record of p.             *)
GroupListed(g, p) ==
    \E i \in DOMAIN p.recs : p.recs[i].name = g.name /\ p.recs[i].idx = g.idx

(* C27: an update_group_list that parsed a group list returns; the live    *)
(* group map then holds exactly the parsed names, a Group that was live is *)
(* still live (the same object) iff a record has its name and its index,   *)
(* every other Group that was live is marked deleted, and the call returns *)
(* the live groups that were not live before.                              *)
C27_Step ==
    \A p \in GroupResponses :
        ParsesGroups(p) =>
            /\ ret'.exc = "none"
            /\ {gobj'[o].name : o \in Range(groups')}
                   = {p.recs[i].name : i \in DOMAIN p.recs}
            /\ \A o \in Range(groups) :
                   /\ o \in Range(groups') <=> GroupListed(gobj[o], p)
                   /\ ~GroupListed(gobj[o], p) => gobj'[o].deleted
            /\ Range(ret'.val) = Range(groups') \ Range(groups)
C27_GroupReconciliation == [][C27_Step]_vars

(* The live map alone: after the call it holds exactly the parsed names.   *)
C27_LiveNames ==
    [][\A p \in GroupResponses :
           ParsesGroups(p) =>
               {gobj'[o].name : o \in Range(groups')}
                   = {p.recs[i].name : i \in DOMAIN p.recs}]_vars

(* What holds: when every Group that was live is listed again, the live    *)
(* map holds exactly the parsed names and the groups that were live are    *)
(* the same objects, not deleted.                                          *)
C27_WhenAllListed ==
    [][\A p \in GroupResponses :
           (ParsesGroups(p) /\ \A o \in Range(groups) : GroupListed(gobj[o], p)) =>
               /\ {gobj'[o].name : o \in Range(groups')}
                      = {p.recs[i].name : i \in DOMAIN p.recs}
               /\ \A o \in Range(groups) : o \in Range(groups') /\ ~gobj'[o].deleted]_vars

(* The step is an update_scene_list that read the scene list p.            *)
ParsesScenes(p) ==
    /\ IsCall("update_scene_list")
    /\ read' = <<p>>
(* The group index a bitmask stands for: the number of its highest bit,    *)
(* counted from 1; 0 for a bitmask with no bit set.                        *)
HighestBit(b) ==
    IF b = 0 THEN 0 ELSE CHOOSE n \in 1..16 : b \div (2 ^ (n - 1)) = 1
(* Scene object s has the name, the index and the group of a record of p.  *)
SceneListed(s, p) ==
    \E i \in DOMAIN p.recs :
        /\ p.recs[i].name = s.name
        /\ p.recs[i].idx = s.idx
        /\ HighestBit(p.recs[i].group) = s.group

(* C28: an update_scene_list that parsed a scene list returns, whatever the *)
(* bitmasks of the records; the live scene map then holds exactly the      *)
(* parsed names, a Scene that was live is still live (the same object) iff *)
(* a record has its name, its index and its group, and every other Scene   *)
(* that was live is marked deleted.                                        *)
C28_Step ==
    \A p \in SceneResponses :
        ParsesScenes(p) =>
            /\ ret'.exc = "none"
            /\ {sobj'[o].name : o \in Range(scenes')}
                   = {p.recs[i].name : i \in DOMAIN p.recs}
            /\ \A o \in Range(scenes) :
                   /\ o \in Range(scenes') <=> SceneListed(sobj[o], p)
                   /\ ~SceneListed(sobj[o], p) => sobj'[o].deleted
C28_SceneReconciliation == [][C28_Step]_vars

(* The same for the lists whose bitmasks all have a bit set.               *)
C28_WhenBitSet ==
    [][\A p \in SceneResponses :
           (ParsesScenes(p) /\ \A i \in DOMAIN p.recs : p.recs[i].group # 0) =>
               /\ ret'.exc = "none"
               /\ {sobj'[o].name : o \in Range(scenes')}
                      = {p.recs[i].name : i \in DOMAIN p.recs}]_vars

(* What holds: when every bitmask has a bit set and every Scene that was   *)
(* live is listed again, the call returns, the live map holds exactly the  *)
(* parsed names and the scenes that were live are the same objects.        *)
C28_WhenAllListed ==
    [][\A p \in SceneResponses :
           ( /\ ParsesScenes(p)
             /\ \A i \in DOMAIN p.recs : p.recs[i].group # 0
             /\ \A o \in Range(scenes) : SceneListed(sobj[o], p) ) =>
               /\ ret'.exc = "none"
               /\ {sobj'[o].name : o \in Range(scenes')}
                      = {p.recs[i].name : i \in DOMAIN p.recs}
               /\ \A o \in Range(scenes) : o \in Range(scenes') /\ ~sobj'[o].deleted]_vars

(* The live lights that are members of the group the step's call reads.    *)
ReadMembers ==
    {o \in Range(lights') : InSeq(lobj'[o].addr, gobj[call'.group].lights)}
(* Those the aggregate is taken over: the members that support the feature *)
(* when there is one, all the members otherwise.                           *)
ReadPool(feature) ==
    LET supporting == {o \in ReadMembers : feature \in lobj'[o].supported_features}
    IN  IF supporting # {} THEN supporting ELSE ReadMembers
(* v is the largest of the numbers the lights of pool have in field f      *)
LargestOf(v, pool, f(_)) ==
    \E m \in pool : v = f(lobj'[m]) /\ \A n \in pool : f(lobj'[n]) <= v
(* triple t is not greater than triple u, in the order of Python's tuples  *)
TripleLeq(t, u) ==
    \/ t[1] < u[1]
    \/ t[1] = u[1] /\ t[2] < u[2]
    \/ t[1] = u[1] /\ t[2] = u[2] /\ t[3] <= u[3]
Rgb(l) == <<l.red, l.green, l.blue>>

(* C29: Group.lum, temp, red, green, blue and rgb return, without an       *)
(* error, the largest value among the member lights that support the       *)
(* feature when a member supports it, the largest value among all member   *)
(* lights otherwise, and 0 when no member light is in the live map.        *)
C29_Step ==
    IsCall("Group.read") =>
        /\ ret'.exc = "none"
        /\ Len(ret'.val) = 1
        /\ ReadMembers = {} => ret'.val[1] = 0
        /\ (ReadMembers # {} /\ call'.attr = "lum") =>
               LargestOf(ret'.val[1], ReadPool("lum"), LAMBDA l : l.lum)
        /\ (ReadMembers # {} /\ call'.attr = "temp") =>
               LargestOf(ret'.val[1], ReadPool("temp"), LAMBDA l : l.temp)
        /\ (ReadMembers # {} /\ call'.attr = "red") =>
               LargestOf(ret'.val[1], ReadPool("rgb"), LAMBDA l : l.red)
        /\ (ReadMembers # {} /\ call'.attr = "green") =>
               LargestOf(ret'.val[1], ReadPool("rgb"), LAMBDA l : l.green)
        /\ (ReadMembers # {} /\ call'.attr = "blue") =>
               LargestOf(ret'.val[1], ReadPool("rgb"), LAMBDA l : l.blue)
        /\ (ReadMembers # {} /\ call'.attr = "rgb") =>
               \E m \in ReadPool("rgb") :
                   /\ ret'.val[1] = Rgb(lobj'[m])
                   /\ \A n \in ReadPool("rgb") : TripleLeq(Rgb(lobj'[n]), ret'.val[1])
C29_GroupAggregate == [][C29_Step]_vars

(* Group.lum() returned the luminance of a member that supports luminance  *)
(* while a member that does not support it has a greater one.              *)
C29_Witness ==
    /\ call.op = "Group.read" /\ call.attr = "lum"
    /\ ret.exc = "none"
    /\ \E m, n \in Range(lights) :
           /\ InSeq(lobj[m].addr, gobj[call.group].lights)
           /\ InSeq(lobj[n].addr, gobj[call.group].lights)
           /\ "lum" \in lobj[m].supported_features
           /\ "lum" \notin lobj[n].supported_features
           /\ ret.val = <<lobj[m].lum>>
           /\ lobj[n].lum > lobj[m].lum

(* The step is a refresh of the lights that parsed a whole response, and r *)
(* is a record of it for an address that had no live Light.                *)
NewlySighted(r) ==
    /\ IsCall("update_all_light_status")
    /\ Len(read') = 1
    /\ lights_hash # md5(read'[1])
    /\ read'[1].num = Len(read'[1].recs)
    /\ \E i \in DOMAIN read'[1].recs : read'[1].recs[i] = r
    /\ r.addr \notin LiveAddrs(lights, lobj)

(* C30: a refresh that sights a new light creates and tracks its Light     *)
(* whether or not the capability table has its type id.  For an id the     *)
(* table lacks the features are on, lum, temp when the record's colour is  *)
(* (1, 0, 0) and on, lum, temp, rgb otherwise; the device name is          *)
(* 'unknown device' exactly for such an id; type_id is the id reported.    *)
C30_Step ==
    \A t \in LightTypes, v \in {1, 2} :
        LET r == [StatusRecord(1, v) EXCEPT !.type_id = t]
        IN  NewlySighted(r) =>
                /\ ret'.exc = "none"
                /\ \E o \in Range(lights') :
                       /\ o \notin DOMAIN lobj
                       /\ o \in Range(ret'.val)
                       /\ lobj'[o].addr = r.addr
                       /\ lobj'[o].type_id = t
                       /\ (lobj'[o].devicename = UNKNOWN_DEVICENAME)
                              <=> (t \notin DOMAIN device_types)
                       /\ t \notin DOMAIN device_types =>
                              lobj'[o].supported_features =
                                  IF <<r.red, r.green, r.blue>> = <<1, 0, 0>>
                                  THEN {"on", "lum", "temp"}
                                  ELSE {"on", "lum", "temp", "rgb"}
C30_UnknownType == [][C30_Step]_vars

(* A refresh created the Light of a device of the unknown type 99 that     *)
(* reports the colour (1, 0, 0): it is live, named 'unknown device', and   *)
(* has no rgb feature.                                                     *)
C30_Witness ==
    /\ call.op = "update_all_light_status"
    /\ ret.exc = "none" /\ ret.val # <<>>
    /\ \E o \in Range(lights) :
           /\ o \in Range(ret.val)
           /\ lobj[o].type_id = 99
           /\ lobj[o].devicename = UNKNOWN_DEVICENAME
           /\ lobj[o].supported_features = {"on", "lum", "temp"}

(* The same for a device that reports another colour: it has the rgb       *)
(* feature.                                                                *)
C30_WitnessRgb ==
    /\ call.op = "update_all_light_status"
    /\ ret.exc = "none" /\ ret.val # <<>>
    /\ \E o \in Range(lights) :
           /\ o \in Range(ret.val)
           /\ lobj[o].type_id = 99
           /\ lobj[o].devicename = UNKNOWN_DEVICENAME
           /\ "rgb" \in lobj[o].supported_features

(* C31: the update_all_light_status that follows a Scene.activate which    *)
(* returned on a scene that is not deleted, whatever time passed between   *)
(* the two and whatever throttling interval it is called with, is not      *)
(* skipped: it builds its request and hands it to the socket.              *)
C31_Step ==
    ( /\ call.op = "Scene.activate"
      /\ ret.exc = "none"
      /\ ~sobj[call.scene].deleted
      /\ IsCall("update_all_light_status") )
    => /\ wrote' # <<>>
       /\ seq' = (seq + 1) % 256
C31_ActivationForcesRefresh == [][C31_Step]_vars

(* A refresh called with the interval MaxInterval went to the socket less  *)
(* than MaxInterval after the refresh that last parsed a response (the     *)
(* response was the same, so lights_changed still holds that time): the    *)
(* activation of a scene between the two reset the timestamp.              *)
C31_Witness ==
    /\ call.op = "update_all_light_status"
    /\ call.interval = MaxInterval
    /\ ret.exc = "none"
    /\ wrote # <<>> /\ read # <<>>
    /\ lights_changed > OUTDATED_TIMESTAMP
    /\ lights_changed < call.at
    /\ call.at < lights_changed + MaxInterval
    /\ lights_updated = now

(* The addresses of the records of response p.                             *)
RecordAddrs(p) == {p.recs[i].addr : i \in DOMAIN p.recs}
(* What a refresh of the lights that received response p has to return:    *)
(* nothing when the stored hash is p's or when a record of p is cut short, *)
(* the lights of the addresses of p that were not live otherwise.          *)
ReturnsNew(p) ==
    /\ ret'.exc = "none"
    /\ IF lights_hash = md5(p) \/ p.num > Len(p.recs)
       THEN ret'.val = <<>>
       ELSE /\ Range(ret'.val) \subseteq Range(lights')
            /\ {lobj'[o].addr : o \in Range(ret'.val)}
                   = RecordAddrs(p) \ LiveAddrs(lights, lobj)

(* C32: update_all_light_status returns the lights it discovered: those of *)
(* the addresses of the parsed response that were not live before the      *)
(* call, and nothing when the call is throttled, when the hash of the      *)
(* response is the stored one or when a record fails to unpack.            *)
C32_Step ==
    IsCall("update_all_light_status") =>
        /\ wrote' = <<>> => ret' = Empty
        /\ \A p \in LightResponses : read' = <<p>> => ReturnsNew(p)
C32_ReturnsDiscovered == [][C32_Step]_vars

(* What holds: the same when every light that was live is in the response. *)
C32_WhenNoneLeaves ==
    [][IsCall("update_all_light_status") =>
           /\ wrote' = <<>> => ret' = Empty
           /\ \A p \in LightResponses :
                  ( /\ read' = <<p>>
                    /\ \/ LiveAddrs(lights, lobj) \subseteq RecordAddrs(p)
                       \/ lights_hash = md5(p)
                       \/ p.num > Len(p.recs) )
                  => ReturnsNew(p)]_vars

(* Light object l has, for the features it supports, the on/off state, the *)
(* luminance, the temperature and the colour of status record r.           *)
CachedAs(l, r) ==
    /\ "on" \in l.supported_features => l.onoff = (r.onoff # 0)
    /\ "lum" \in l.supported_features => l.lum = r.lum
    /\ "temp" \in l.supported_features => l.temp = r.temp
    /\ "rgb" \in l.supported_features =>
           <<l.red, l.green, l.blue>> = <<r.red, r.green, r.blue>>
(* After the step the live lights are those of the records of p, each with *)
(* the values of its record.                                               *)
CacheIs(p) ==
    /\ LiveAddrs(lights', lobj') = RecordAddrs(p)
    /\ \A i \in DOMAIN p.recs : \A o \in Range(lights') :
           lobj'[o].addr = p.recs[i].addr => CachedAs(lobj'[o], p.recs[i])
(* The step is a refresh of the lights that received a whole response and  *)
(* returned.                                                               *)
RefreshReturned ==
    /\ IsCall("update_all_light_status")
    /\ Len(read') = 1
    /\ read'[1].num = Len(read'[1].recs)
    /\ ret'.exc = "none"

(* C33: whatever calls came before, when update_all_light_status received  *)
(* a response and returned, the live lights are those of the addresses of  *)
(* the response and each has, for the features it supports, the on/off     *)
(* state, the luminance, the temperature and the colour of its record.     *)
C33_Step == RefreshReturned => CacheIs(read'[1])
C33_CacheConsistent == [][C33_Step]_vars

(* What holds: the same for a refresh that parsed the response, the stored *)
(* hash not being the response's.                                          *)
C33_WhenParsed ==
    [][(RefreshReturned /\ lights_hash # md5(read'[1])) => CacheIs(read'[1])]_vars



(* Thread t is inside send; send has returned to it or raised.             *)
InsideSend(t) == thr[t].pc \in {"recv_length", "recv_rest", "connect"}
LeftSend(t) == thr[t].pc \in {"done", "failed"}

(* C34: whatever the connection does (the response arrives whole or in     *)
(* parts, nothing arrives in time, the connection is reset, or the peer    *)
(* closes it and the reads return no byte), a thread inside send leaves    *)
(* it: send returns or raises.                                             *)
C34_SendTerminates == \A t \in Threads : InsideSend(t) ~> LeftSend(t)

(* The peer has closed the connection inside the announced bytes: the read *)
(* loop is waiting for more of them and none will come.                    *)
ClosedInBody(t) ==
    /\ thr[t].pc = "recv_rest"
    /\ sock.inbox = <<>>
    /\ call.end = "closed"
(* What holds: a thread inside send leaves it or comes to read from a      *)
(* connection closed inside the announced bytes.                           *)
C34_UnlessClosedInBody ==
    \A t \in Threads : InsideSend(t) ~> (LeftSend(t) \/ ClosedInBody(t))

(* After the step the light of the call has the value setter op stores for *)
(* the call's argument.                                                    *)
SetterStored(op) ==
    LET l == lobj[call'.light]
        m == lobj'[call'.light]
    IN  CASE op = "Light.set_onoff" -> m.onoff = call'.onoff
          [] op = "Light.set_luminance" ->
                 /\ call'.lum > 0 => m.onoff /\ m.lum = Min(call'.lum, MAX_LUMINANCE)
                 /\ call'.lum = 0 => ~m.onoff /\ m.lum = DEFAULT_LUMINANCE
          [] op = "Light.set_temperature" ->
                 m.temp = Max(OwnMinTemp(l), Min(call'.temp, OwnMaxTemp(l)))
          [] op = "Light.set_rgb" ->
                 <<m.red, m.green, m.blue>>
                     = [i \in 1..3 |-> Min(call'.rgb[i], MAX_COLOUR)]

(* C35: when the send of a setter of a live light that has the feature     *)
(* raises socket.error, the light holds the new value although nothing was *)
(* sent, and the stored hash and lights_changed are as before the call;    *)
(* when the setter returns, the hash is reset and lights_changed is the    *)
(* time of the call.                                                       *)
C35_Step ==
    \A op \in DOMAIN SetterFeature :
        /\ (SetsLive(op) /\ ret'.exc = "socket.error") =>
               /\ SetterStored(op)
               /\ lights_hash' = lights_hash
               /\ lights_changed' = lights_changed
        /\ (SetsLive(op) /\ ret'.exc = "none") =>
               /\ SetterStored(op)
               /\ lights_hash' = <<>>
               /\ lights_changed' = now'
C35_FailureOrdering == [][C35_Step]_vars

(* Light.set_luminance(50) raised socket.error on a light a refresh had    *)
(* reported with another luminance: the light has 50 and the hash of the   *)
(* refresh is still stored.                                                *)
C35_Witness ==
    /\ call.op = "Light.set_luminance" /\ call.lum = 50
    /\ ret.exc = "socket.error"
    /\ ~lobj[call.light].deleted
    /\ lobj[call.light].lum = 50
    /\ lights_hash # <<>>
    /\ lights_hash[1].recs[1].lum # 50

----------------------------------------------------------------------------
(* SpecThrottle: every thread calls one of the three refreshes once, step  *)
(* by step: the throttling check on entry, `with self.__lock`, the check   *)
(* again under the lock and the rest of the call, which runs under the     *)
(* lock as a whole.  A thread's record holds the refresh it called and the *)
(* interval it passed, whether it passed the entry check, the threads that *)
(* were inside a call when it did, the number of calls that had run under  *)
(* the lock before its own, the time of its check under the lock, the      *)
(* frames it wrote, what it returned and, when its call made its round     *)
(* trip and ran to its end, the timestamp it set.                          *)

InCall(t) == thr[t].pc \in {"entered", "locked"}
Finished(t) == thr[t].pc \in {"returned", "raised"}

(* if throttling_interval and time.time() < self.__lights_updated + ...:   *)
(*     return {}               (lines 1491-1493, 1253-1255, 1353-1355)     *)
throttle_entry(t) ==
    /\ thr[t].pc = "idle"
    /\ \E op \in RefreshOps, T \in Intervals :
        thr' = [thr EXCEPT ![t] =
                   [pc |-> IF throttled(Client, UpdatedOf(op), T)
                           THEN "returned" ELSE "entered",
                    op |-> op,
                    interval |-> T,
                    entry |-> ~throttled(Client, UpdatedOf(op), T),
                    beside |-> {u \in Threads : u # t /\ InCall(u)},
                    nth |-> 0, checked |-> 0,
                    frames |-> <<>>, val |-> <<>>, stamp |-> 0]]
    /\ UNCHANGED <<lock, sock>>
    /\ UNCHANGED ClientState
    /\ UNCHANGED seq

(* with self.__lock:                      (lines 1495, 1257, 1357)         *)
throttle_acquire(t) ==
    /\ thr[t].pc = "entered"
    /\ lock = 0
    /\ RLock_acquire(lock, t)
    /\ lock' = t
    /\ thr' = [thr EXCEPT ![t].pc = "locked"]
    /\ UNCHANGED sock
    /\ UNCHANGED ClientState
    /\ UNCHANGED seq

(* What runs under the lock: the check again and the rest of the call      *)
(* (lines 1496-1588, 1258-1299, 1358-1404), with its mutant: no check      *)
(* under the lock.                                                         *)
locked_refresh_unchecked(c, op, throttling_interval, io) ==
    CASE op = "update_all_light_status" -> update_all_light_status(c, 0, io)
      [] op = "update_group_list" -> update_group_list(c, 0, io)
      [] op = "update_scene_list" -> update_scene_list(c, 0, io)
locked_refresh(c, op, throttling_interval, io) ==
    CASE op = "update_all_light_status" ->
             update_all_light_status(c, throttling_interval, io)
      [] op = "update_group_list" -> update_group_list(c, throttling_interval, io)
      [] op = "update_scene_list" -> update_scene_list(c, throttling_interval, io)

(* The timestamp of refresh op in client c.                                *)
UpdatedIn(c, op) ==
    CASE op = "update_all_light_status" -> c.lights_updated
      [] op = "update_group_list" -> c.groups_updated
      [] op = "update_scene_list" -> c.scenes_updated

(* The responses the gateway gives to the request of refresh op.           *)
ThrottleResponses(op) ==
    CASE op = "update_all_light_status" -> SyncLightResponses
      [] op = "update_group_list" -> GroupResponses
      [] op = "update_scene_list" -> SceneResponses

(* The thread that owns the lock runs the call to its end and leaves the   *)
(* with block.                                                             *)
throttle_body(t) ==
    /\ thr[t].pc = "locked"
    /\ lock = t
    /\ \E r0 \in {locked_refresh(Client, thr[t].op, thr[t].interval, FailIO)} :
       \E r \in (IF r0.c.wrote = <<>> THEN {r0}
                 ELSE {locked_refresh(Client, thr[t].op, thr[t].interval, io) :
                          io \in IOs(ThrottleResponses(thr[t].op))}) :
          /\ Store(r, [op |-> thr[t].op, interval |-> thr[t].interval, at |-> now])
          /\ thr' = [thr EXCEPT ![t] =
                        [@ EXCEPT !.pc = IF r.exc = "none" THEN "returned"
                                         ELSE "raised",
                                  !.nth = Cardinality({u \in Threads :
                                                          thr[u].pc # "idle"
                                                          /\ thr[u].checked # 0}),
                                  !.checked = now,
                                  !.frames = r.c.wrote,
                                  !.val = r.val,
                                  !.stamp = IF /\ r.c.wrote # <<>>
                                               /\ r.exc = "none"
                                               /\ UpdatedIn(r.c, thr[t].op) = now
                                            THEN now ELSE 0]]
    /\ lock' = 0
    /\ UNCHANGED <<issued, sock>>

NextThrottle ==
    \/ Tick
    \/ \E t \in Threads : throttle_entry(t)
    \/ \E t \in Threads : throttle_acquire(t)
    \/ \E t \in Threads : throttle_body(t)

SpecThrottle == Init /\ [][NextThrottle]_vars

(* Threads t and u called the same refresh with the same interval T > 0,   *)
(* neither was throttled on entry, one passed its entry check while the    *)
(* other was inside the call, and both calls are over.                     *)
CalledTogether(t, u) ==
    /\ t # u /\ Finished(t) /\ Finished(u)
    /\ thr[t].op = thr[u].op
    /\ thr[t].interval > 0 /\ thr[u].interval = thr[t].interval
    /\ thr[t].entry /\ thr[u].entry
    /\ (u \in thr[t].beside \/ t \in thr[u].beside)

RoundTrips(ts) == Cardinality({x \in ts : thr[x].frames # <<>>})

(* C36 as stated: two threads that call the same refresh with interval     *)
(* T > 0 at the same time, neither throttled on entry, make exactly one    *)
(* round trip together.                                                    *)
C36_AsStated ==
    \A t, u \in Threads : CalledTogether(t, u) => RoundTrips({t, u}) = 1

(* C36: of two such threads, when the call of the thread that took the     *)
(* lock first made its round trip and ran to completion (it set the        *)
(* timestamp) and the second thread's check under the lock comes less than *)
(* T after that, the second thread returns an empty result without a round *)
(* trip: one round trip for the two calls.                                 *)
C36_ThrottleUnderLock ==
    \A t, u \in Threads :
        ( /\ CalledTogether(t, u)
          /\ thr[t].nth < thr[u].nth
          /\ thr[t].stamp > 0
          /\ thr[u].checked < thr[t].stamp + thr[u].interval )
        => /\ thr[u].pc = "returned"
           /\ thr[u].val = <<>>
           /\ thr[u].frames = <<>>
           /\ RoundTrips({t, u}) = 1

C36_Witness ==
    \E t, u \in Threads :
        /\ CalledTogether(t, u)
        /\ thr[t].nth < thr[u].nth
        /\ thr[t].stamp > 0
        /\ thr[u].checked < thr[t].stamp + thr[u].interval
        /\ thr[u].checked > 0
        /\ thr[t].frames # <<>>
        /\ thr[u].frames = <<>>

----------------------------------------------------------------------------
(* Group.light_names: [self.__conn.lights()[addr].name() for addr in       *)
(* self.__lights]; a member that is not a key of the live map raises       *)
(* KeyError.                                                               *)
Group_light_names(c, g) ==
    IF \E i \in DOMAIN g.lights : LiveLight(c, g.lights[i]) = 0
    THEN Raise(c, "KeyError")
    ELSE Ret(c, [i \in DOMAIN g.lights |-> c.lobj[LiveLight(c, g.lights[i])].name])

(* C37: in every reachable state every address in the member list of a     *)
(* live Group is a key of the live light map, so that Group.light_names    *)
(* does not fail on a missing address.                                     *)
C37_MembersResolve ==
    \A k \in DOMAIN groups :
        /\ Range(gobj[groups[k]].lights) \subseteq LiveAddrs(lights, lobj)
        /\ Group_light_names(Client, gobj[groups[k]]).exc = "none"

----------------------------------------------------------------------------
(* C38: an update_group_list that read a well-formed group list, a list    *)
(* naming a group that no live light belongs to included, returns          *)
(* normally, leaves as live groups exactly the groups of the list, and     *)
(* sets groups_updated.                                                    *)
C38_Step ==
    \A p \in GroupResponses :
        ParsesGroups(p) =>
            /\ ret'.exc = "none"
            /\ \A i \in DOMAIN p.recs :
                   \E o \in Range(groups') :
                       /\ gobj'[o].name = p.recs[i].name
                       /\ gobj'[o].idx = p.recs[i].idx
                       /\ ~gobj'[o].deleted
            /\ \A o \in Range(groups') : GroupListed(gobj'[o], p)
            /\ groups_updated' = now'
C38_GroupListCompletes == [][C38_Step]_vars

(* What holds: when every group of the list has a live light and no Group  *)
(* that was live leaves the map, the call returns normally with the map    *)
(* reflecting the list and groups_updated set.                             *)
C38_WhenGroupsHaveLights ==
    [][\A p \in GroupResponses :
           ( /\ ParsesGroups(p)
             /\ \A i \in DOMAIN p.recs :
                    \E o \in Range(lights) : InSeq(p.recs[i].idx, lobj[o].groups)
             /\ \A o \in Range(groups) : GroupListed(gobj[o], p) )
           => /\ ret'.exc = "none"
              /\ \A o \in Range(groups') : GroupListed(gobj'[o], p)
              /\ groups_updated' = now']_vars

----------------------------------------------------------------------------
(* Thread u holds a frame it has built and not yet written to the socket.  *)
Unsent(u) == thr[u].frame # <<>> /\ InSeq("sendall", thr[u].prog)
(* _next_seq returned k before it returned n.                              *)
IssuedBefore(k, n) ==
    \E i, j \in DOMAIN issued : i < j /\ issued[i] = k /\ issued[j] = n
(* The step is thread t's sendall writing its frame to the socket for the  *)
(* first time.                                                             *)
FirstWrite(t) ==
    /\ At(t, {"sendall"})
    /\ sock' = [sock EXCEPT !.inflight = Append(@, thr[t].frame)]
    /\ thr'[t].prog = Tail(thr[t].prog)

(* C39: with concurrent callers of setters and refreshes, frames are       *)
(* written to the socket in the order in which their sequence numbers were *)
(* generated: when a frame is written for the first time, no other thread  *)
(* holds an unwritten frame whose sequence number was generated before.    *)
C39_Step ==
    \A t \in Threads :
        FirstWrite(t) =>
            \A u \in Threads \ {t} :
                ~(Unsent(u) /\ IssuedBefore(thr[u].frame[1], thr[t].frame[1]))
C39_WireOrder == [][C39_Step]_vars

----------------------------------------------------------------------------
(* SpecRetype: the refresh of the lights while the gateway reports one     *)
(* light, or none, and is free to report another device type for the       *)
(* address every time.                                                     *)
RetypeResponses ==
    {[num |-> 0, recs |-> <<>>]}
    \cup {[num |-> 1, recs |-> <<[StatusRecord(1, v) EXCEPT !.type_id = t]>>] :
              t \in LightTypes, v \in {1, 2}}

RetypeLights == UpdateAllLightStatus(RetypeResponses, {0}, MaxSeqRetype)

NextRetype == RetypeLights

SpecRetype == Init /\ [][NextRetype]_vars

(* What a Light is given by its constructor for its type: the raw type id, *)
(* the device type and subtype, the display name, the features and the     *)
(* temperature bounds.                                                     *)
Capability(l) ==
    <<l.type_id, l.devicetype, l.devicesubtype, l.devicename,
      l.supported_features, Light_min_temp(l), Light_max_temp(l)>>

(* C40: a refresh of the lights that returns keeps in the map the object   *)
(* of every live address its payload lists, and a Light object that stays  *)
(* in the map across a refresh keeps its raw type id, device type,         *)
(* subtype, display name, feature set and temperature bounds, whatever     *)
(* device type the payload reports for its address.                        *)
C40_Step ==
    IsCall("update_all_light_status") =>
        \A o \in Range(lights) :
            /\ ( /\ ret'.exc = "none"
                 /\ read' # <<>>
                 /\ read'[1].num = Len(read'[1].recs)
                 /\ \E i \in DOMAIN read'[1].recs :
                        read'[1].recs[i].addr = lobj[o].addr )
               => o \in Range(lights')
            /\ o \in Range(lights') => Capability(lobj'[o]) = Capability(lobj[o])
C40_CapabilityFixed == [][C40_Step]_vars

(* A refresh has parsed a record that reports another type id than the one *)
(* the reused object of its address was created with.                      *)
C40_Witness ==
    /\ call.op = "update_all_light_status"
    /\ ret = Empty
    /\ Len(lobj) = 1 /\ lights = <<1>>
    /\ Len(read) = 1 /\ Len(read[1].recs) = 1
    /\ read[1].recs[1].addr = lobj[1].addr
    /\ read[1].recs[1].type_id # lobj[1].type_id
    /\ read[1].recs[1].type_id \in DOMAIN device_types
    /\ device_types[read[1].recs[1].type_id].subtype # lobj[1].devicesubtype
    /\ lights_hash = md5(read[1])
    /\ lights_changed = now /\ lights_updated = now
    /\ lobj[1].reachable = (read[1].recs[1].reachable # 0)
    /\ seq = 2

====
